---- MODULE Spec2Model ----
(***************************************************************************)
(* A model of the pci-zkp SDK: the age-threshold attestation engine        *)
(* (sdk/src/proofs/age-verification.ts), the credential engine and the     *)
(* proof dispatcher (sdk/src/proofs/generator.ts) and the process-wide     *)
(* Midnight client state (sdk/src/midnight/witnesses.ts, second half).     *)
(*                                                                         *)
(* JavaScript values are encoded as follows.                               *)
(*   - an optional string or number is a sequence: <<>> is undefined,      *)
(*     <<x>> is the value x; a string is falsy when undefined or "".       *)
(*   - a value whose type the code tests with typeof is a string tagged    *)
(*     with its type ("boolean:true", "string:..."), or, for numbers, a    *)
(*     record [type, n].                                                   *)
(*   - a Date is [valid, y, m, d] with m the 0-based month getMonth()      *)
(*     returns; valid = FALSE is the Invalid Date (getTime() is NaN).      *)
(***************************************************************************)
EXTENDS Integers, Sequences, FiniteSets, TLC

VARIABLES
    clientState,   \* the module-level singleton `clientState`
    initialized,   \* AgeVerification.initialized, per engine instance
    useMidnight,   \* AgeVerification.useMidnight, per engine instance
    calls,         \* per caller: the asynchronous call in flight and its locals
    indexer,       \* what the indexer answers at this moment (environment)
    ageIn,         \* inputs of the pure age computation (SpecAge)
    ageOut,        \* its results
    objects,       \* the heap: contents of each MidnightConfig object
    snapshots,     \* per caller: the ClientState copy getClientState gave it
    written,       \* history: the completed initializeClient calls
    pureIn,        \* arguments of a stand-alone function call (SpecPure)
    pureOut        \* its result

vars == <<clientState, initialized, useMidnight, calls, indexer, ageIn, ageOut,
          objects, snapshots, written, pureIn, pureOut>>

\* The variables only the client-module and stand-alone specifications change.
pureVars == <<pureIn, pureOut>>

(***************************************************************************)
(* Optional values and JavaScript truthiness.                              *)
(***************************************************************************)
None == <<>>
Some(x) == <<x>>
Truthy(s) == s # None /\ s # Some("")

JsTrue == "boolean:true"
JsFalse == "boolean:false"
JsUndefined == "undefined"
JsBool(b) == IF b THEN JsTrue ELSE JsFalse
TypeofBoolean(v) == v \in {JsTrue, JsFalse}

JsNum(n) == [type |-> "number", n |-> n]
JsNoNum == [type |-> "undefined", n |-> 0]
JsStrNum == [type |-> "string", n |-> 0]
TypeofNumber(v) == v.type = "number"

(***************************************************************************)
(* Dates.                                                                  *)
(***************************************************************************)
MkDate(y, m, d) == [valid |-> TRUE, y |-> y, m |-> m, d |-> d]
InvalidDate == [valid |-> FALSE, y |-> 0, m |-> 0, d |-> 0]
GetFullYear(dt) == dt.y
GetMonth(dt) == dt.m
GetDate(dt) == dt.d

(***************************************************************************)
(* Proof records (types.ts Proof, with the on-chain fields the second      *)
(* snapshot of the engines reads: txId, contractAddress, blockHeight).     *)
(***************************************************************************)
\* publicSignals; `missing` marks a proof object that has no publicSignals
\* property at all (undefined), on which every property read raises.
NoSignals ==
    [missing |-> FALSE,
     verified |-> JsUndefined, minAge |-> JsNoNum, network |-> None,
     requesterDid |-> None, error |-> None,
     valid |-> JsUndefined, credentialType |-> None, issuerPublicKey |-> None]

NoProofData ==
    [type |-> "", version |-> "", placeholder |-> FALSE, network |-> "",
     verified |-> JsUndefined, minAge |-> JsNoNum]

MkProof(data, signals, vk, cid) ==
    [proof |-> data, publicSignals |-> signals, verificationKey |-> vk,
     circuitId |-> cid, txId |-> None, contractAddress |-> None,
     blockHeight |-> None]

NoProof == MkProof(NoProofData, NoSignals, "", "")

generatePlaceholderProofData ==
    [NoProofData EXCEPT !.type = "age_verification", !.version = "1.0",
                        !.placeholder = TRUE]

generateMidnightProofData(verified, minAge) ==
    [NoProofData EXCEPT !.type = "age_verification", !.version = "2.0",
                        !.network = "midnight", !.verified = JsBool(verified),
                        !.minAge = JsNum(minAge)]

DefaultMinAge == 18

(***************************************************************************)
(* AgeVerification.generate: parsing of the birth date.  The input field   *)
(* is a Date object, a string or absent.  A string is described by its     *)
(* shape: "ymd" matches /^(\d{4})-(\d{2})-(\d{2})$/ and carries the three  *)
(* numbers; "other" is a non-empty string new Date() cannot parse; "empty" *)
(* is "".                                                                  *)
(***************************************************************************)
BirthAbsent == [kind |-> "absent", shape |-> "", date |-> InvalidDate]
BirthObject(dt) == [kind |-> "Date", shape |-> "", date |-> dt]
BirthString(shape, dt) == [kind |-> "string", shape |-> shape, date |-> dt]

IsLeapYear(y) == (y % 4 = 0 /\ y % 100 # 0) \/ y % 400 = 0

\* Days of the 0-based month m of year y.
DaysInMonth(y, m) ==
    IF m = 1 THEN (IF IsLeapYear(y) THEN 29 ELSE 28)
    ELSE IF m \in {3, 5, 8, 10} THEN 30 ELSE 31

PreviousDay(dt) ==
    IF dt.d > 1 THEN MkDate(dt.y, dt.m, dt.d - 1)
    ELSE IF dt.m > 0 THEN MkDate(dt.y, dt.m - 1, DaysInMonth(dt.y, dt.m - 1))
    ELSE MkDate(dt.y - 1, 11, 31)

NextDay(dt) ==
    IF dt.d < DaysInMonth(dt.y, dt.m) THEN MkDate(dt.y, dt.m, dt.d + 1)
    ELSE IF dt.m < 11 THEN MkDate(dt.y, dt.m + 1, 1)
    ELSE MkDate(dt.y + 1, 0, 1)

RECURSIVE ShiftDays(_, _)
\* The calendar day n days after dt (before it, for negative n).
ShiftDays(dt, n) ==
    IF n = 0 THEN dt
    ELSE IF n > 0 THEN ShiftDays(NextDay(dt), n - 1)
    ELSE ShiftDays(PreviousDay(dt), n + 1)

\* new Date(Number(y), Number(m) - 1, Number(d)); the string carries the
\* 1-based month.  The constructor never yields an Invalid Date for finite
\* components: a year of 0 to 99 means 1900 + year, a month outside 0..11
\* carries into the year, and a day outside the month counts on from the
\* first of the month.
LocalDateFromParts(dt) ==
    LET year == IF dt.y \in 0..99 THEN 1900 + dt.y ELSE dt.y
        month == dt.m - 1
    IN  ShiftDays(MkDate(year + (month \div 12), month % 12, 1), dt.d - 1)

\* The value of `birthDate` after lines 346-359: a Date, or null.
ParseBirthDate(bd) ==
    IF bd.kind = "Date" THEN [null |-> FALSE, date |-> bd.date]
    ELSE IF bd.kind = "string" /\ bd.shape # "empty"
         THEN IF bd.shape = "ymd"
              THEN [null |-> FALSE, date |-> LocalDateFromParts(bd.date)]
              ELSE [null |-> FALSE, date |-> InvalidDate]
         ELSE [null |-> TRUE, date |-> InvalidDate]

\* A variant that rejects only the missing birth date.
BirthRejectedNullOnly(parsed) == parsed.null

\* !birthDate || isNaN(birthDate.getTime())
BirthRejected(parsed) == parsed.null \/ ~parsed.date.valid

ErrorProof ==
    MkProof(NoProofData,
            [NoSignals EXCEPT !.verified = JsFalse,
                              !.error = Some("Invalid or missing birth date")],
            "", "age_verification")

(***************************************************************************)
(* The age computation of the two branches.  The fields of an Invalid     *)
(* Date are NaN and a comparison on NaN is false, so `verified` is false.  *)
(***************************************************************************)
\* A variant in which the birthday itself does not count as passed.
PlaceholderVerifiedStrictDay(birthDate, minAge, currentDate) ==
    LET birthdayPassed ==
            \/ GetMonth(currentDate) > GetMonth(birthDate)
            \/ (GetMonth(currentDate) = GetMonth(birthDate)
                  /\ GetDate(currentDate) > GetDate(birthDate))
        age == IF birthdayPassed
               THEN GetFullYear(currentDate) - GetFullYear(birthDate)
               ELSE GetFullYear(currentDate) - GetFullYear(birthDate) - 1
    IN  birthDate.valid /\ currentDate.valid /\ age >= minAge

\* A variant that compares a 1-based current month with a 0-based birth month.
MidnightVerifiedMixedMonths(birthDate, minAge, currentDate) ==
    LET birthdayPassed ==
            \/ GetMonth(currentDate) + 1 > GetMonth(birthDate)
            \/ (GetMonth(currentDate) + 1 = GetMonth(birthDate)
                  /\ GetDate(currentDate) >= GetDate(birthDate))
        age == IF birthdayPassed
               THEN GetFullYear(currentDate) - GetFullYear(birthDate)
               ELSE GetFullYear(currentDate) - GetFullYear(birthDate) - 1
    IN  birthDate.valid /\ currentDate.valid /\ age >= minAge

PlaceholderVerified(birthDate, minAge, currentDate) ==
    LET birthYear == GetFullYear(birthDate)
        birthMonth == GetMonth(birthDate)
        birthDay == GetDate(birthDate)
        currentYear == GetFullYear(currentDate)
        currentMonth == GetMonth(currentDate)
        currentDay == GetDate(currentDate)
        birthdayPassed ==
            \/ currentMonth > birthMonth
            \/ (currentMonth = birthMonth /\ currentDay >= birthDay)
        age == IF birthdayPassed THEN currentYear - birthYear
               ELSE currentYear - birthYear - 1
    IN  birthDate.valid /\ currentDate.valid /\ age >= minAge

MidnightVerified(birthDate, minAge, currentDate) ==
    LET birthYear == GetFullYear(birthDate)
        birthMonth == GetMonth(birthDate) + 1
        birthDay == GetDate(birthDate)
        currentYear == GetFullYear(currentDate)
        currentMonth == GetMonth(currentDate) + 1
        currentDay == GetDate(currentDate)
        birthdayPassed ==
            \/ currentMonth > birthMonth
            \/ (currentMonth = birthMonth /\ currentDay >= birthDay)
        age == IF birthdayPassed THEN currentYear - birthYear
               ELSE currentYear - birthYear - 1
    IN  birthDate.valid /\ currentDate.valid /\ age >= minAge

\* if (requesterDid) publicSignals.requesterDid = requesterDid
BindDid(signals, requesterDid) ==
    IF Truthy(requesterDid) THEN [signals EXCEPT !.requesterDid = requesterDid]
    ELSE signals

\* A variant that publishes the computed age in place of the threshold.
generatePlaceholderRevealsAge(birthDate, minAge, currentDate, requesterDid) ==
    LET verified == PlaceholderVerified(birthDate, minAge, currentDate)
        age == (GetFullYear(currentDate) - GetFullYear(birthDate))
               - (IF \/ GetMonth(currentDate) > GetMonth(birthDate)
                     \/ (GetMonth(currentDate) = GetMonth(birthDate)
                           /\ GetDate(currentDate) >= GetDate(birthDate))
                  THEN 0 ELSE 1)
        publicSignals ==
            BindDid([NoSignals EXCEPT !.verified = JsBool(verified),
                                      !.minAge = JsNum(age),
                                      !.network = Some("mocked")],
                    requesterDid)
    IN  [kind |-> "proof",
         proof |-> MkProof(generatePlaceholderProofData, publicSignals,
                           "age_verification_vk_placeholder",
                           "age_verification")]

generatePlaceholder(birthDate, minAge, currentDate, requesterDid) ==
    LET verified == PlaceholderVerified(birthDate, minAge, currentDate)
        publicSignals ==
            BindDid([NoSignals EXCEPT !.verified = JsBool(verified),
                                      !.minAge = JsNum(minAge),
                                      !.network = Some("mocked")],
                    requesterDid)
    IN  [kind |-> "proof",
         proof |-> MkProof(generatePlaceholderProofData, publicSignals,
                           "age_verification_vk_placeholder",
                           "age_verification")]

\* A variant that returns the proof with a transaction and a contract
\* address attached.
generateWithMidnightAnchored(st, birthDate, minAge, currentDate, requesterDid) ==
    LET verified == MidnightVerified(birthDate, minAge, currentDate)
        publicSignals ==
            BindDid([NoSignals EXCEPT !.verified = JsBool(verified),
                                      !.minAge = JsNum(minAge),
                                      !.network = Some("midnight")],
                    requesterDid)
    IN  [kind |-> "proof",
         proof |-> [MkProof(generateMidnightProofData(verified, minAge),
                            publicSignals, "age_verification_vk_midnight",
                            "age_verification")
                    EXCEPT !.txId = Some("tx1"), !.contractAddress = Some("0xc1")]]

\* st is the snapshot getClientState() returns at line 406.
generateWithMidnight(st, birthDate, minAge, currentDate, requesterDid) ==
    IF ~st.providers \/ st.config = None
    THEN [kind |-> "throw:Midnight client not initialized", proof |-> NoProof]
    ELSE IF ~currentDate.valid
    THEN \* parseDateForCircuit(currentDate) at line 412
         [kind |-> "throw:TypeError", proof |-> NoProof]
    ELSE
    LET verified == MidnightVerified(birthDate, minAge, currentDate)
        publicSignals ==
            BindDid([NoSignals EXCEPT !.verified = JsBool(verified),
                                      !.minAge = JsNum(minAge),
                                      !.network = Some("midnight")],
                    requesterDid)
    IN  [kind |-> "proof",
         proof |-> MkProof(generateMidnightProofData(verified, minAge),
                           publicSignals, "age_verification_vk_midnight",
                           "age_verification")]

(***************************************************************************)
(* The Midnight client (witnesses.ts, lines 98-377).                       *)
(***************************************************************************)
Engines == {"e1", "e2"}

\* The constructor argument of each AgeVerification instance.  e1 is the
\* instance ProofGenerator builds (no Midnight options); e2 is built with
\* { skipNetworkCheck: true }.
EngineConfig(e) ==
    [skipNetworkCheck |-> (e = "e2"), network |-> None, indexerUrl |-> None]

\* MidnightConfig objects live on the heap and are passed by reference: each
\* engine holds its own (this.config), and k1, k2 are objects a caller of
\* initializeClient owns.  clientState.config holds such a reference.
CallerConfigs == {"k1", "k2"}
ConfigObjects == Engines \cup CallerConfigs

DefaultIndexerUrl == "http://localhost:8088"

\* new URL(indexerUrl) succeeds; an absent indexerUrl is replaced by the
\* default before it is parsed.
UrlWellFormed(url) == url # Some("not a url")

InitialClientState ==
    [connected |-> FALSE, network |-> "mocked", providers |-> FALSE,
     config |-> None]

\* A variant that stores a connected state whatever the probe answered.
WriteClientStateAlwaysLive(available, ref, config) ==
    [connected |-> TRUE,
     network |-> IF config.network = None THEN "standalone" ELSE config.network[1],
     providers |-> TRUE,
     config |-> Some(ref)]

\* A variant whose failure branch leaves the provider handles and the config
\* of the previous initialisation in place.
WriteClientStateKeepsStale(available, ref, config) ==
    IF available
    THEN [connected |-> TRUE,
          network |-> IF config.network = None THEN "standalone"
                      ELSE config.network[1],
          providers |-> TRUE,
          config |-> Some(ref)]
    ELSE [connected |-> FALSE, network |-> "mocked",
          providers |-> clientState.providers, config |-> clientState.config]

\* A variant that keeps a live state once one has been established.
WriteClientStateFirstWins(available, ref, config) ==
    IF clientState.connected THEN clientState
    ELSE IF available
    THEN [connected |-> TRUE,
          network |-> IF config.network = None THEN "standalone"
                      ELSE config.network[1],
          providers |-> TRUE,
          config |-> Some(ref)]
    ELSE [connected |-> FALSE, network |-> "mocked", providers |-> FALSE,
          config |-> None]

\* A variant that updates the fields of the current state one by one and
\* keeps a config and a network label that are already there.
WriteClientStateMerges(available, ref, config) ==
    IF available
    THEN [connected |-> TRUE,
          network |-> IF clientState.connected THEN clientState.network
                      ELSE IF config.network = None THEN "standalone"
                      ELSE config.network[1],
          providers |-> TRUE,
          config |-> IF clientState.config # None THEN clientState.config
                     ELSE Some(ref)]
    ELSE [connected |-> FALSE, network |-> "mocked", providers |-> FALSE,
          config |-> None]

\* The assignment initializeClient makes once the probe has answered; ref is
\* the config object passed in and config its contents at that moment.
WriteClientState(available, ref, config) ==
    IF available
    THEN [connected |-> TRUE,
          network |-> IF config.network = None THEN "standalone"
                      ELSE config.network[1],
          providers |-> TRUE,
          config |-> Some(ref)]
    ELSE [connected |-> FALSE, network |-> "mocked", providers |-> FALSE,
          config |-> None]

\* isNetworkAvailable: the result once both requests have settled.
ProbeResult(proofServerOk, indexerOk) == proofServerOk /\ indexerOk

\* A completed initializeClient call as the history keeps it: the config
\* object it was given, that object's network label and the probe's answer
\* when it wrote, and the state it assigned to `clientState`.
Written(ref, config, available, st) ==
    [config |-> ref, network |-> config.network, available |-> available,
     state |-> st]

\* A variant that returns a copy without the provider handles.
getClientStateWithoutProviders(st) ==
    [connected |-> st.connected, network |-> st.network,
     providers |-> FALSE, config |-> st.config]

\* getClientState: { ...clientState }, a copy of the four top-level fields;
\* config stays a reference to the same object.
getClientState(st) ==
    [connected |-> st.connected, network |-> st.network,
     providers |-> st.providers, config |-> st.config]

\* clientState.config?.indexerUrl ?? "http://localhost:8088"
IndexerUrlOf(st) ==
    IF st.config = None \/ objects[st.config[1]].indexerUrl = None
    THEN DefaultIndexerUrl
    ELSE objects[st.config[1]].indexerUrl[1]

(***************************************************************************)
(* The indexer as the environment: what queryContractState and             *)
(* queryTransaction return at this moment.  A transport failure, a non-2xx *)
(* status and missing data all give null.                                  *)
(***************************************************************************)
MaxBlockHeight == 1

ContractNull == "null"
ContractAnswers == {ContractNull, JsTrue, JsFalse, JsUndefined}

TxNull == [found |-> FALSE, blockHeight |-> 0]
TxAt(h) == [found |-> TRUE, blockHeight |-> h]
TxAnswers == {TxNull} \cup {TxAt(h) : h \in 0..MaxBlockHeight}

IndexerStates == [contract : ContractAnswers, tx : TxAnswers]

(***************************************************************************)
(* AgeVerification.verify, up to its first suspension.                     *)
(***************************************************************************)
StructureValid(signals) ==
    TypeofBoolean(signals.verified) /\ TypeofNumber(signals.minAge)

\* expectedDid && signals.requesterDid !== expectedDid
DidMismatch(signals, expectedDid) ==
    Truthy(expectedDid) /\ signals.requesterDid # expectedDid

\* !proof.txId || !proof.contractAddress
LacksOnChainRef(p) == ~Truthy(p.txId) \/ ~Truthy(p.contractAddress)

Outcome(ret, pc, log) == [ret |-> ret, pc |-> pc, log |-> log]

\* A variant that trusts a proof without on-chain reference.
verifyMidnightProofTrustsPending(p, log) ==
    IF LacksOnChainRef(p) THEN Outcome("true", "done", log)
    ELSE Outcome("pending", "ver_state",
                 log \o <<"getClientState", "queryContractState">>)

verifyMidnightProof(p, log) ==
    IF LacksOnChainRef(p) THEN Outcome("false", "done", log)
    ELSE Outcome("pending", "ver_state",
                 log \o <<"getClientState", "queryContractState">>)

\* A variant that decides the mode from the client state at the call.
AgeVerifyReadsClientState(p, expectedDid, um) ==
    IF p.circuitId # "age_verification"
    THEN Outcome("throw:Invalid circuit ID for age verification", "done",
                 <<"age.verify">>)
    ELSE IF p.publicSignals.missing
    THEN Outcome("throw:TypeError", "done", <<"age.verify">>)
    ELSE IF ~StructureValid(p.publicSignals)
    THEN Outcome("false", "done", <<"age.verify", "signals">>)
    ELSE IF DidMismatch(p.publicSignals, expectedDid)
    THEN Outcome("false", "done", <<"age.verify", "signals">>)
    ELSE IF clientState.connected
    THEN verifyMidnightProof(p, <<"age.verify", "signals">>)
    ELSE Outcome("true", "done", <<"age.verify", "signals">>)

AgeVerify(p, expectedDid, um) ==
    IF p.circuitId # "age_verification"
    THEN Outcome("throw:Invalid circuit ID for age verification", "done",
                 <<"age.verify">>)
    ELSE IF p.publicSignals.missing
    THEN Outcome("throw:TypeError", "done", <<"age.verify">>)
    ELSE IF ~StructureValid(p.publicSignals)
    THEN Outcome("false", "done", <<"age.verify", "signals">>)
    ELSE IF DidMismatch(p.publicSignals, expectedDid)
    THEN Outcome("false", "done", <<"age.verify", "signals">>)
    ELSE IF um
    THEN verifyMidnightProof(p, <<"age.verify", "signals">>)
    ELSE Outcome("true", "done", <<"age.verify", "signals">>)

\* A variant that asks for the transaction whatever `verified` the instance
\* state holds.
AfterContractStateIgnoresVerified(p, answer) ==
    IF answer = ContractNull THEN Outcome("false", "done", <<>>)
    ELSE Outcome("pending", "ver_tx", <<"queryTransaction">>)

\* A variant that asks again until the instance state is found.
AfterContractStateRetries(p, answer) ==
    IF answer = ContractNull THEN Outcome("pending", "ver_state", <<>>)
    ELSE IF answer # p.publicSignals.verified
    THEN Outcome("false", "done", <<>>)
    ELSE Outcome("pending", "ver_tx", <<"queryTransaction">>)

\* verifyMidnightProof after queryContractState has answered.
AfterContractState(p, answer) ==
    IF answer = ContractNull THEN Outcome("false", "done", <<>>)
    ELSE IF answer # p.publicSignals.verified
    THEN Outcome("false", "done", <<>>)
    ELSE Outcome("pending", "ver_tx", <<"queryTransaction">>)

\* A variant that does not compare block heights.
AfterTransactionAnyHeight(p, answer) ==
    IF ~answer.found THEN "false" ELSE "true"

\* verifyMidnightProof after queryTransaction has answered.
AfterTransaction(p, answer) ==
    IF ~answer.found THEN "false"
    ELSE IF p.blockHeight # None /\ answer.blockHeight # p.blockHeight[1]
    THEN "false"
    ELSE "true"

(***************************************************************************)
(* CredentialProof.verify and ProofGenerator.verify (generator.ts).        *)
(***************************************************************************)
CredentialStructureValid(signals) ==
    /\ TypeofBoolean(signals.valid)
    /\ Truthy(signals.credentialType)
    /\ Truthy(signals.issuerPublicKey)

\* A variant that inspects the signals before the circuit identifier.
CredentialVerifySignalsFirst(p) ==
    IF p.publicSignals.missing
    THEN Outcome("throw:TypeError", "done", <<"credential.verify">>)
    ELSE IF ~CredentialStructureValid(p.publicSignals)
    THEN Outcome("false", "done", <<"credential.verify", "signals">>)
    ELSE IF p.circuitId # "credential_proof"
    THEN Outcome("throw:Invalid circuit ID for credential proof", "done",
                 <<"credential.verify", "signals">>)
    ELSE IF p.publicSignals.valid # JsTrue
    THEN Outcome("false", "done", <<"credential.verify", "signals">>)
    ELSE Outcome("true", "done", <<"credential.verify", "signals">>)

\* A variant that does not read the proof's own validity flag.
CredentialVerifyIgnoresValid(p) ==
    IF p.circuitId # "credential_proof"
    THEN Outcome("throw:Invalid circuit ID for credential proof", "done",
                 <<"credential.verify">>)
    ELSE IF p.publicSignals.missing
    THEN Outcome("throw:TypeError", "done", <<"credential.verify">>)
    ELSE IF ~CredentialStructureValid(p.publicSignals)
    THEN Outcome("false", "done", <<"credential.verify", "signals">>)
    ELSE IF Truthy(p.txId) /\ Truthy(p.contractAddress)
    THEN Outcome("throw:On-chain credential proof verification is not yet implemented",
                 "done", <<"credential.verify", "signals">>)
    ELSE Outcome("true", "done", <<"credential.verify", "signals">>)

CredentialVerify(p) ==
    IF p.circuitId # "credential_proof"
    THEN Outcome("throw:Invalid circuit ID for credential proof", "done",
                 <<"credential.verify">>)
    ELSE IF p.publicSignals.missing
    THEN Outcome("throw:TypeError", "done", <<"credential.verify">>)
    ELSE IF ~CredentialStructureValid(p.publicSignals)
    THEN Outcome("false", "done", <<"credential.verify", "signals">>)
    ELSE IF p.publicSignals.valid # JsTrue
    THEN Outcome("false", "done", <<"credential.verify", "signals">>)
    ELSE IF Truthy(p.txId) /\ Truthy(p.contractAddress)
    THEN Outcome("throw:On-chain credential proof verification is not yet implemented",
                 "done", <<"credential.verify", "signals">>)
    ELSE Outcome("true", "done", <<"credential.verify", "signals">>)

\* The instance ProofGenerator holds in this.ageVerification.
GeneratorEngine == "e1"

\* A variant whose default case falls through to the credential engine.
RouteDefaultsToCredential(circuitId) ==
    IF circuitId = "age_verification" THEN "age" ELSE "credential"

\* The engine the switch of ProofGenerator.verify selects.
Route(circuitId) ==
    IF circuitId = "age_verification" THEN "age"
    ELSE IF circuitId = "credential_proof" THEN "credential"
    ELSE "default"

DispatchVerify(p, um) ==
    LET inner == IF Route(p.circuitId) = "age" THEN AgeVerify(p, None, um)
                 ELSE CredentialVerify(p)
    IN  IF Route(p.circuitId) = "default"
        THEN Outcome("throw:Unknown circuit", "done", <<"generator.verify">>)
        ELSE [inner EXCEPT !.log = <<"generator.verify">> \o @]

(***************************************************************************)
(* Calls.  Each caller has at most one asynchronous call in flight; pc is  *)
(* the await the call is suspended at.                                     *)
(***************************************************************************)
Callers == {"c1", "c2"}

NoGenInput ==
    [birthDate |-> BirthAbsent, minAge |-> None,
     currentDate |-> [kind |-> "absent", date |-> InvalidDate],
     requesterDid |-> None]

IdleCall ==
    [op |-> "none", engine |-> "e1", config |-> "e1", pc |-> "idle",
     gen |-> NoGenInput, clock |-> InvalidDate,
     birthDate |-> InvalidDate, minAgeV |-> 0,
     currentDateV |-> InvalidDate,
     proofIn |-> NoProof, expectedDid |-> None,
     probed |-> "no", available |-> FALSE,
     contractAnswer |-> "unasked", txAsked |-> FALSE, txAnswer |-> TxNull,
     indexerUrl |-> "", txUrl |-> "",
     ret |-> "none", out |-> NoProof, log |-> <<>>]

Idle(c) == calls[c].pc = "idle"
Done(c) == calls[c].pc = "done"

\* this.initialize() as called at entry: already initialised, the probe
\* skipped (isNetworkAvailable returns false at once), or the two probe
\* requests issued.
\* A variant that issues the probe requests whatever skipNetworkCheck says.
StartInitializeClientAlwaysProbes(call) ==
    [call EXCEPT !.pc = "probe", !.probed = "issued",
                 !.log = @ \o <<"initializeClient", "fetch:proofServer",
                                "fetch:indexer">>]

\* initializeClient(config) up to its `await isNetworkAvailable(config)`:
\* the probe is skipped; or parsing the indexer URL throws after the
\* proof-server request has been started, which the probe's try block turns
\* into false; or both requests are issued.
StartInitializeClient(call) ==
    LET config == objects[call.config]
    IN  IF config.skipNetworkCheck
        THEN [call EXCEPT !.pc = "init_write", !.probed = "skipped",
                          !.available = FALSE,
                          !.log = @ \o <<"initializeClient">>]
        ELSE IF ~UrlWellFormed(config.indexerUrl)
        THEN [call EXCEPT !.pc = "init_write", !.probed = "issued",
                          !.available = FALSE,
                          !.log = @ \o <<"initializeClient", "fetch:proofServer">>]
        ELSE [call EXCEPT !.pc = "probe", !.probed = "issued",
                          !.log = @ \o <<"initializeClient", "fetch:proofServer",
                                         "fetch:indexer">>]

\* A variant without memoisation: every call runs initializeClient.
EnterInitializeEveryTime(call, e) ==
    StartInitializeClient([call EXCEPT !.config = e,
                                       !.log = @ \o <<"initialize">>])

EnterInitialize(call, e) ==
    IF initialized[e]
    THEN IF call.op = "initialize"
         THEN [call EXCEPT !.pc = "done", !.log = @ \o <<"initialize">>,
                           !.ret = IF useMidnight[e] THEN "true" ELSE "false"]
         ELSE [call EXCEPT !.pc = "initialized", !.log = @ \o <<"initialize">>]
    ELSE StartInitializeClient([call EXCEPT !.config = e,
                                            !.log = @ \o <<"initialize">>])

\* A variant that awaits this.initialize() before it looks at the birth date.
GenerateEntryInitialisesFirst(e, in, now) ==
    LET parsed == ParseBirthDate(in.birthDate)
        start == [IdleCall EXCEPT !.op = "generate", !.engine = e, !.gen = in,
                                  !.clock = now]
    IN  EnterInitialize(
            [start EXCEPT
               !.birthDate = parsed.date,
               !.minAgeV = IF in.minAge = None THEN DefaultMinAge
                           ELSE in.minAge[1],
               !.currentDateV = IF in.currentDate.kind = "Date"
                                THEN in.currentDate.date ELSE now],
            e)

\* A variant that compares against the clock whatever the input says.
GenerateEntryUsesClock(e, in, now) ==
    LET parsed == ParseBirthDate(in.birthDate)
        start == [IdleCall EXCEPT !.op = "generate", !.engine = e, !.gen = in,
                                  !.clock = now]
    IN  IF BirthRejected(parsed)
        THEN [start EXCEPT !.pc = "done", !.ret = "proof", !.out = ErrorProof]
        ELSE EnterInitialize(
                 [start EXCEPT
                    !.birthDate = parsed.date,
                    !.minAgeV = IF in.minAge = None THEN DefaultMinAge
                                ELSE in.minAge[1],
                    !.currentDateV = now],
                 e)

\* AgeVerification.generate, lines 344-378, up to `await this.initialize()`.
GenerateEntry(e, in, now) ==
    LET parsed == ParseBirthDate(in.birthDate)
        start == [IdleCall EXCEPT !.op = "generate", !.engine = e, !.gen = in,
                                  !.clock = now]
    IN  IF BirthRejected(parsed)
        THEN [start EXCEPT !.pc = "done", !.ret = "proof", !.out = ErrorProof]
        ELSE EnterInitialize(
                 [start EXCEPT
                    !.birthDate = parsed.date,
                    !.minAgeV = IF in.minAge = None THEN DefaultMinAge
                                ELSE in.minAge[1],
                    !.currentDateV = IF in.currentDate.kind = "Date"
                                     THEN in.currentDate.date ELSE now],
                 e)

\* A variant that enters the live branch on the engine's memoised mode.
GenerateBranchOnMemoisedMode(call, st) ==
    LET r == IF useMidnight[call.engine]
             THEN generateWithMidnight(st, call.birthDate, call.minAgeV,
                                       call.currentDateV, call.gen.requesterDid)
             ELSE generatePlaceholder(call.birthDate, call.minAgeV,
                                      call.currentDateV, call.gen.requesterDid)
    IN  [call EXCEPT !.pc = "done", !.ret = r.kind, !.out = r.proof,
                     !.log = @ \o <<"getClientState">>]

\* generate, lines 381-387, with generateWithMidnight re-reading the state.
GenerateBranch(call, st) ==
    LET r == IF st.connected /\ st.providers
             THEN generateWithMidnight(st, call.birthDate, call.minAgeV,
                                       call.currentDateV, call.gen.requesterDid)
             ELSE generatePlaceholder(call.birthDate, call.minAgeV,
                                      call.currentDateV, call.gen.requesterDid)
    IN  [call EXCEPT !.pc = "done", !.ret = r.kind, !.out = r.proof,
                     !.log = @ \o <<"getClientState">>]

Generate(c, e, in, now) ==
    /\ Idle(c)
    /\ calls' = [calls EXCEPT ![c] = GenerateEntry(e, in, now)]
    /\ UNCHANGED <<clientState, initialized, useMidnight, indexer, ageIn, ageOut,
                   objects, snapshots, written, pureVars>>

Initialize(c, e) ==
    /\ Idle(c)
    /\ calls' = [calls EXCEPT ![c] =
                   EnterInitialize([IdleCall EXCEPT !.op = "initialize",
                                                    !.engine = e], e)]
    /\ UNCHANGED <<clientState, initialized, useMidnight, indexer, ageIn, ageOut,
                   objects, snapshots, written, pureVars>>

\* The continuations that are ready to run as microtasks: the call awaits a
\* promise that is already settled (the skipped probe, initializeClient's or
\* initialize's return).  A network completion is a task of its own: it is
\* delivered only when no microtask is pending, and the continuations it
\* wakes run before the next one is delivered.
MicrotaskReady(c) == calls[c].pc \in {"init_write", "init_return", "initialized"}
NoMicrotask == \A c \in Callers : ~MicrotaskReady(c)

\* Both probe requests have settled: isNetworkAvailable resolves,
\* initializeClient writes the client state and returns, initialize sets the
\* engine's flags and returns, and generate goes on to its branch.  When the
\* probe succeeded but the config's indexerUrl no longer parses,
\* createProviders throws: nothing is written and the call rejects.
ProbeDone(c, proofServerOk, indexerOk) ==
    LET available == ProbeResult(proofServerOk, indexerOk)
        e == calls[c].engine
        config == objects[calls[c].config]
        throws == available /\ ~UrlWellFormed(config.indexerUrl)
        st == WriteClientState(available, calls[c].config, config)
        woken == [calls[c] EXCEPT !.available = available]
        byEngine == woken.op \in {"generate", "initialize"}
    IN  /\ calls[c].pc = "probe"
        /\ NoMicrotask
        /\ clientState' = IF throws THEN clientState ELSE st
        /\ written' = IF throws THEN written
                      ELSE written \cup {Written(calls[c].config, config,
                                                  available, st)}
        /\ useMidnight' = IF byEngine /\ ~throws
                          THEN [useMidnight EXCEPT ![e] = available]
                          ELSE useMidnight
        /\ initialized' = IF byEngine /\ ~throws
                          THEN [initialized EXCEPT ![e] = TRUE]
                          ELSE initialized
        /\ calls' = [calls EXCEPT ![c] =
                       IF throws
                       THEN [woken EXCEPT !.pc = "done", !.ret = "throw:TypeError"]
                       ELSE IF woken.op = "generate" THEN GenerateBranch(woken, st)
                       ELSE [woken EXCEPT !.pc = "done",
                                          !.ret = IF available THEN "true"
                                                  ELSE "false"]]
        /\ UNCHANGED <<indexer, ageIn, ageOut, objects, snapshots, pureVars>>

\* initializeClient resumes after `await isNetworkAvailable(config)`, which
\* resolved to false without waiting for the network.
InitWrite(c) ==
    LET st == WriteClientState(calls[c].available, calls[c].config,
                               objects[calls[c].config])
    IN  /\ calls[c].pc = "init_write"
        /\ clientState' = st
        /\ written' = written \cup {Written(calls[c].config,
                                            objects[calls[c].config],
                                            calls[c].available, st)}
        /\ calls' = [calls EXCEPT ![c] =
                       IF calls[c].op = "initializeClient"
                       THEN [calls[c] EXCEPT !.pc = "done", !.ret = "false"]
                       ELSE [calls[c] EXCEPT !.pc = "init_return"]]
        /\ UNCHANGED <<initialized, useMidnight, indexer, ageIn, ageOut,
                       objects, snapshots, pureVars>>

\* initialize resumes after `await initializeClient(this.config)`.
InitReturn(c) ==
    /\ calls[c].pc = "init_return"
    /\ useMidnight' = [useMidnight EXCEPT ![calls[c].engine] = calls[c].available]
    /\ initialized' = [initialized EXCEPT ![calls[c].engine] = TRUE]
    /\ calls' = [calls EXCEPT ![c].pc = "initialized"]
    /\ UNCHANGED <<clientState, indexer, ageIn, ageOut,
                   objects, snapshots, written, pureVars>>

\* The caller of initialize() resumes: generate goes on to its branch, a
\* direct initialize() call returns this.useMidnight.
Initialized(c) ==
    /\ calls[c].pc = "initialized"
    /\ calls' = [calls EXCEPT ![c] =
                   IF calls[c].op = "generate"
                   THEN GenerateBranch(calls[c], clientState)
                   ELSE [calls[c] EXCEPT !.pc = "done",
                           !.ret = IF useMidnight[calls[c].engine] THEN "true"
                                   ELSE "false"]]
    /\ UNCHANGED <<clientState, initialized, useMidnight, indexer, ageIn, ageOut,
                   objects, snapshots, written, pureVars>>

\* A verifying call: AgeVerification.verify on engine e, ProofGenerator.verify
\* or CredentialProof.verify.
StartVerify(call, o) ==
    IF o.pc = "ver_state" /\ ~UrlWellFormed(Some(IndexerUrlOf(clientState)))
    THEN \* buildIndexerUrls raises in queryContractState, outside its try
         [call EXCEPT !.pc = "done", !.ret = "throw:TypeError", !.log = o.log,
                      !.indexerUrl = IndexerUrlOf(clientState)]
    ELSE [call EXCEPT !.pc = o.pc, !.ret = o.ret, !.log = o.log,
                      !.indexerUrl = IF o.pc = "ver_state"
                                     THEN IndexerUrlOf(clientState)
                                     ELSE ""]

Verify(c, e, p, expectedDid) ==
    /\ Idle(c)
    /\ calls' = [calls EXCEPT ![c] =
                   StartVerify([IdleCall EXCEPT !.op = "verify", !.engine = e,
                                  !.proofIn = p, !.expectedDid = expectedDid],
                               AgeVerify(p, expectedDid, useMidnight[e]))]
    /\ UNCHANGED <<clientState, initialized, useMidnight, indexer, ageIn, ageOut,
                   objects, snapshots, written, pureVars>>

GeneratorVerify(c, p) ==
    /\ Idle(c)
    /\ calls' = [calls EXCEPT ![c] =
                   StartVerify([IdleCall EXCEPT !.op = "generator.verify",
                                  !.engine = GeneratorEngine, !.proofIn = p],
                               DispatchVerify(p, useMidnight[GeneratorEngine]))]
    /\ UNCHANGED <<clientState, initialized, useMidnight, indexer, ageIn, ageOut,
                   objects, snapshots, written, pureVars>>

CredentialProofVerify(c, p) ==
    /\ Idle(c)
    /\ calls' = [calls EXCEPT ![c] =
                   StartVerify([IdleCall EXCEPT !.op = "credential.verify",
                                                !.proofIn = p],
                               CredentialVerify(p))]
    /\ UNCHANGED <<clientState, initialized, useMidnight, indexer, ageIn, ageOut,
                   objects, snapshots, written, pureVars>>

\* A variant that reads the URL from the client state again for the
\* transaction query.
TransactionUrlReread(call, st) == IndexerUrlOf(st)

\* The URL passed to queryTransaction at line 628: the local constant of
\* line 613.
TransactionUrl(call, st) == call.indexerUrl

\* queryContractState answers.
ContractStateDone(c) ==
    /\ calls[c].pc = "ver_state"
    /\ NoMicrotask
    /\ LET o == AfterContractState(calls[c].proofIn, indexer.contract)
       IN  calls' = [calls EXCEPT ![c].pc = o.pc, ![c].ret = o.ret,
                                  ![c].contractAnswer = indexer.contract,
                                  ![c].txAsked = (o.pc = "ver_tx"),
                                  ![c].txUrl = IF o.pc = "ver_tx"
                                               THEN TransactionUrl(calls[c],
                                                                   clientState)
                                               ELSE "",
                                  ![c].log = @ \o o.log]
    /\ UNCHANGED <<clientState, initialized, useMidnight, indexer, ageIn, ageOut,
                   objects, snapshots, written, pureVars>>

\* queryTransaction answers.
TransactionDone(c) ==
    /\ calls[c].pc = "ver_tx"
    /\ NoMicrotask
    /\ calls' = [calls EXCEPT ![c].pc = "done",
                              ![c].ret = AfterTransaction(calls[c].proofIn, indexer.tx),
                              ![c].txAnswer = indexer.tx]
    /\ UNCHANGED <<clientState, initialized, useMidnight, indexer, ageIn, ageOut,
                   objects, snapshots, written, pureVars>>

\* The caller takes the result; it may call again.
Return(c) ==
    /\ Done(c)
    /\ calls' = [calls EXCEPT ![c] = IdleCall]
    /\ UNCHANGED <<clientState, initialized, useMidnight, indexer, ageIn, ageOut,
                   objects, snapshots, written, pureVars>>

\* The ledger moves on, or the indexer goes down or comes back, while a
\* query is outstanding.
IndexerChange(a) ==
    /\ \E c \in Callers : calls[c].pc \in {"ver_state", "ver_tx"}
    /\ a # indexer
    /\ indexer' = a
    /\ UNCHANGED <<clientState, initialized, useMidnight, calls, ageIn, ageOut,
                   objects, snapshots, written, pureVars>>

(***************************************************************************)
(* Inputs.                                                                 *)
(***************************************************************************)
Born == MkDate(2000, 11, 15)            \* 2000-12-15, local time
DayBefore == MkDate(2024, 11, 14)       \* 2024-12-14
Birthday == MkDate(2024, 11, 15)        \* 2024-12-15
Now == MkDate(2025, 5, 1)               \* what new Date() returns

BirthInputs ==
    {BirthAbsent, BirthObject(InvalidDate), BirthObject(Born),
     BirthString("other", InvalidDate), BirthString("empty", InvalidDate),
     BirthString("ymd", MkDate(2000, 12, 15))}

CurrentInputs ==
    {[kind |-> "absent", date |-> InvalidDate],
     [kind |-> "Date", date |-> DayBefore],
     [kind |-> "Date", date |-> Birthday],
     [kind |-> "Date", date |-> InvalidDate],
     [kind |-> "string", date |-> DayBefore]}

DidInputs == {None, Some(""), Some("did:key:a")}
ExpectedDids == DidInputs \cup {Some("did:key:b")}

GenInputs ==
    [birthDate : BirthInputs, minAge : {None, Some(24)},
     currentDate : CurrentInputs, requesterDid : DidInputs]

\* A client state written by a successful initialisation.
LiveState == WriteClientState(TRUE, "e1", EngineConfig("e1"))

\* The proofs generate returns for the valid inputs above.
GeneratedProofs ==
    {ErrorProof}
    \cup {generatePlaceholder(Born, m, cur, d).proof :
            m \in {DefaultMinAge, 24}, cur \in {DayBefore, Birthday}, d \in DidInputs}
    \cup {generateWithMidnight(LiveState, Born, m, cur, d).proof :
            m \in {DefaultMinAge, 24}, cur \in {DayBefore, Birthday}, d \in DidInputs}

\* Proofs a caller presents with on-chain reference fields set.
Anchor(p, t, a, h) ==
    [p EXCEPT !.txId = t, !.contractAddress = a, !.blockHeight = h]

AnchoredProofs ==
    {Anchor(p, t, a, h) :
        p \in {generateWithMidnight(LiveState, Born, 24, Birthday, Some("did:key:a")).proof,
               generateWithMidnight(LiveState, Born, 24, DayBefore, None).proof,
               generatePlaceholder(Born, DefaultMinAge, Birthday, None).proof},
        t \in {None, Some(""), Some("tx1")},
        a \in {None, Some("0xc1")},
        h \in {None} \cup {Some(n) : n \in 0..MaxBlockHeight}}

MalformedProofs ==
    LET p == generatePlaceholder(Born, DefaultMinAge, Birthday, None).proof
    IN  {[p EXCEPT !.publicSignals.verified = "string:not-a-boolean",
                   !.publicSignals.minAge = JsStrNum],
         [p EXCEPT !.publicSignals.verified = JsUndefined],
         [p EXCEPT !.publicSignals.minAge = JsNoNum],
         [p EXCEPT !.publicSignals = [NoSignals EXCEPT !.missing = TRUE]]}

CredentialProofs ==
    {MkProof([NoProofData EXCEPT !.type = "credential_proof", !.version = "1.0",
                                 !.placeholder = TRUE],
             [NoSignals EXCEPT !.valid = v, !.credentialType = t,
                               !.issuerPublicKey = k],
             "credential_proof_vk_placeholder", "credential_proof") :
        v \in {JsTrue, JsFalse, JsUndefined},
        t \in {None, Some(""), Some("passport")},
        k \in {Some(""), Some("pk123")}}

ForeignProofs ==
    LET p == generatePlaceholder(Born, DefaultMinAge, Birthday, None).proof
    IN  {[p EXCEPT !.circuitId = "range_proof"], [p EXCEPT !.circuitId = ""],
         [p EXCEPT !.circuitId = "credential_proof"]}
        \cup {Anchor(q, Some("tx1"), a, None) :
                q \in {c \in CredentialProofs :
                         /\ c.publicSignals.valid = JsTrue
                         /\ c.publicSignals.credentialType = Some("passport")
                         /\ c.publicSignals.issuerPublicKey = Some("pk123")},
                a \in {None, Some("0xc1")}}

VerifyProofs ==
    GeneratedProofs \cup AnchoredProofs \cup MalformedProofs
    \cup CredentialProofs \cup ForeignProofs

(***************************************************************************)
(* The specification: one caller, every input above.                       *)
(***************************************************************************)
\* The heap before any caller has changed an object: every config object
\* holds what its owner constructed it with.
InitialObjects ==
    [k \in ConfigObjects |-> IF k \in Engines THEN EngineConfig(k)
                             ELSE EngineConfig("e1")]

NoSnapshot == [held |-> FALSE, dirty |-> FALSE, state |-> InitialClientState]
NoPureInput == [fn |-> "none"]
NoPureOutput == [done |-> FALSE, kind |-> "none"]

NoAgeInput == [birthDate |-> InvalidDate, minAge |-> 0, currentDate |-> InvalidDate]
NoAgeOutput == [done |-> FALSE, placeholder |-> NoProof, midnight |-> NoProof]

Init ==
    /\ clientState = InitialClientState
    /\ initialized = [e \in Engines |-> FALSE]
    /\ useMidnight = [e \in Engines |-> FALSE]
    /\ calls = [c \in Callers |-> IdleCall]
    /\ indexer \in IndexerStates
    /\ ageIn = NoAgeInput
    /\ ageOut = NoAgeOutput
    /\ objects = InitialObjects
    /\ snapshots = [c \in Callers |-> NoSnapshot]
    /\ written = {}
    /\ pureIn = NoPureInput
    /\ pureOut = NoPureOutput

Step(c) ==
    \/ Idle(c) /\ \E e \in Engines, in \in GenInputs : Generate(c, e, in, Now)
    \/ Idle(c) /\ \E e \in Engines : Initialize(c, e)
    \/ \E ps \in BOOLEAN, ix \in BOOLEAN : ProbeDone(c, ps, ix)
    \/ InitWrite(c)
    \/ InitReturn(c)
    \/ Initialized(c)
    \/ Idle(c) /\ \E e \in Engines, p \in VerifyProofs, d \in ExpectedDids :
                     Verify(c, e, p, d)
    \/ Idle(c) /\ \E p \in VerifyProofs : GeneratorVerify(c, p)
    \/ Idle(c) /\ \E p \in VerifyProofs : CredentialProofVerify(c, p)
    \/ ContractStateDone(c)
    \/ TransactionDone(c)
    \/ Return(c)

Next ==
    \/ Step("c1")
    \/ \E a \in IndexerStates : IndexerChange(a)

Spec == Init /\ [][Next]_vars

(***************************************************************************)
(* Concurrent callers: two calls in flight, on the same or on different    *)
(* engines, with a small set of inputs.                                    *)
(***************************************************************************)
ConcGenInputs ==
    {[NoGenInput EXCEPT !.birthDate = BirthObject(Born),
                        !.currentDate = [kind |-> "Date", date |-> Birthday]],
     NoGenInput}

ConcProofs ==
    {generatePlaceholder(Born, DefaultMinAge, Birthday, None).proof,
     generateWithMidnight(LiveState, Born, DefaultMinAge, Birthday, None).proof,
     Anchor(generateWithMidnight(LiveState, Born, DefaultMinAge, Birthday, None).proof,
            Some("tx1"), Some("0xc1"), None)}

StepConc(c) ==
    \/ Idle(c) /\ \E e \in Engines, in \in ConcGenInputs : Generate(c, e, in, Now)
    \/ Idle(c) /\ \E e \in Engines : Initialize(c, e)
    \/ \E ps \in BOOLEAN, ix \in BOOLEAN : ProbeDone(c, ps, ix)
    \/ InitWrite(c)
    \/ InitReturn(c)
    \/ Initialized(c)
    \/ Idle(c) /\ \E e \in Engines, p \in ConcProofs : Verify(c, e, p, None)
    \/ ContractStateDone(c)
    \/ TransactionDone(c)
    \/ Return(c)

NextConc ==
    \/ \E c \in Callers : StepConc(c)
    \/ \E a \in IndexerStates : IndexerChange(a)

SpecConc == Init /\ [][NextConc]_vars

\* The event loop runs every continuation whose promise has settled: a call
\* suspended at an await that needs no network answer always resumes.
MicrotasksRun ==
    \A c \in Callers :
        /\ WF_vars(InitWrite(c))
        /\ WF_vars(InitReturn(c))
        /\ WF_vars(Initialized(c))

SpecConcFair == SpecConc /\ MicrotasksRun

\* Every outstanding request settles: the probe's requests carry
\* AbortSignal.timeout, and an indexer query ends with an answer, a failure
\* or its timeout.  A completion is delivered between microtasks, so it is
\* enabled again and again rather than continuously.
RequestsSettle ==
    \A c \in Callers :
        /\ SF_vars(\E ps \in BOOLEAN, ix \in BOOLEAN : ProbeDone(c, ps, ix))
        /\ SF_vars(ContractStateDone(c))
        /\ SF_vars(TransactionDone(c))

\* Two callers issue generate and verify calls on the two engines while
\* the indexer gives one of three fixed answers.
LiveIndexerStates ==
    {[contract |-> ContractNull, tx |-> TxNull],
     [contract |-> JsTrue, tx |-> TxNull],
     [contract |-> JsTrue, tx |-> TxAt(0)]}

InitLive ==
    /\ clientState = InitialClientState
    /\ initialized = [e \in Engines |-> FALSE]
    /\ useMidnight = [e \in Engines |-> FALSE]
    /\ calls = [c \in Callers |-> IdleCall]
    /\ indexer \in LiveIndexerStates
    /\ ageIn = NoAgeInput
    /\ ageOut = NoAgeOutput
    /\ objects = InitialObjects
    /\ snapshots = [c \in Callers |-> NoSnapshot]
    /\ written = {}
    /\ pureIn = NoPureInput
    /\ pureOut = NoPureOutput

StepLive(c) ==
    \/ Idle(c) /\ \E e \in Engines, in \in ConcGenInputs : Generate(c, e, in, Now)
    \/ \E ps \in BOOLEAN, ix \in BOOLEAN : ProbeDone(c, ps, ix)
    \/ InitWrite(c)
    \/ InitReturn(c)
    \/ Initialized(c)
    \/ Idle(c) /\ \E e \in Engines, p \in ConcProofs : Verify(c, e, p, None)
    \/ ContractStateDone(c)
    \/ TransactionDone(c)
    \/ Return(c)

NextLive == \E c \in Callers : StepLive(c)

SpecLive == InitLive /\ [][NextLive]_vars /\ MicrotasksRun /\ RequestsSettle

(***************************************************************************)
(* The age computation alone, over a window of birth dates, comparison     *)
(* dates and thresholds around the 24th birthday.                          *)
(***************************************************************************)
DaySpread == 1
YearSpread == 1

AgeDays == (15 - DaySpread)..(15 + DaySpread)
AgeInputs ==
    [birthDate : {MkDate(2000, m, d) : m \in 0..11, d \in AgeDays},
     minAge : (24 - YearSpread)..(24 + YearSpread),
     currentDate : {MkDate(y, m, d) : y \in 2024..(2024 + YearSpread),
                                      m \in 0..11, d \in AgeDays}]

InitAge ==
    /\ clientState = InitialClientState
    /\ initialized = [e \in Engines |-> FALSE]
    /\ useMidnight = [e \in Engines |-> FALSE]
    /\ calls = [c \in Callers |-> IdleCall]
    /\ indexer = [contract |-> ContractNull, tx |-> TxNull]
    /\ ageIn \in AgeInputs
    /\ ageOut = NoAgeOutput
    /\ objects = InitialObjects
    /\ snapshots = [c \in Callers |-> NoSnapshot]
    /\ written = {}
    /\ pureIn = NoPureInput
    /\ pureOut = NoPureOutput

\* Both branches of generate applied to the same parsed inputs.
ComputeAge ==
    /\ ~ageOut.done
    /\ ageOut' =
         [done |-> TRUE,
          placeholder |-> generatePlaceholder(ageIn.birthDate, ageIn.minAge,
                                              ageIn.currentDate, None).proof,
          midnight |-> generateWithMidnight(LiveState, ageIn.birthDate,
                                            ageIn.minAge, ageIn.currentDate,
                                            None).proof]
    /\ UNCHANGED <<clientState, initialized, useMidnight, calls, indexer, ageIn,
                   objects, snapshots, written, pureVars>>

NextAge == ComputeAge

SpecAge == InitAge /\ [][NextAge]_vars

(***************************************************************************)
(* Stand-alone functions: the availability probe, the two indexer queries  *)
(* and CredentialProof.generate, each applied once to arguments drawn from *)
(* a bounded set.  An exception is a result whose kind is "throw:...".     *)
(***************************************************************************)
\* How one fetch ends: a response with a 2xx status, a response with another
\* status, a rejection by the transport, or an abort by AbortSignal.timeout.
FetchOutcomes == {"2xx", "non2xx", "transport", "timeout"}

\* fetch(...).then((r) => r.ok).catch(() => false)
FetchOk(outcome) == outcome = "2xx"

\* buildIndexerUrls: new URL(indexerUrl) throws a TypeError on a malformed URL.
buildIndexerUrls(indexerUrl) ==
    IF UrlWellFormed(indexerUrl) THEN "return" ELSE "throw:TypeError"

\* A variant whose try block does not cover the construction of the requests.
isNetworkAvailableUncaught(config, proofServer, indexerReq) ==
    IF config.skipNetworkCheck
    THEN [kind |-> "return", value |-> FALSE, requests |-> {}]
    ELSE IF ~config.timeoutValid
    THEN [kind |-> "throw:RangeError", value |-> FALSE, requests |-> {}]
    ELSE IF buildIndexerUrls(config.indexerUrl) # "return"
    THEN [kind |-> "throw:TypeError", value |-> FALSE,
          requests |-> {"proofServer"}]
    ELSE [kind |-> "return",
          value |-> ProbeResult(FetchOk(proofServer), FetchOk(indexerReq)),
          requests |-> {"proofServer", "indexer"}]

\* isNetworkAvailable(config) with config already merged over DEFAULT_CONFIG;
\* proofServer and indexerReq are how the two requests end if they are issued.
\* AbortSignal.timeout throws on an invalid timeout before the first request
\* is started; buildIndexerUrls throws after it; the catch returns false.
isNetworkAvailable(config, proofServer, indexerReq) ==
    LET tried ==
            IF ~config.timeoutValid
            THEN [kind |-> "throw:RangeError", value |-> FALSE, requests |-> {}]
            ELSE IF buildIndexerUrls(config.indexerUrl) # "return"
            THEN [kind |-> "throw:TypeError", value |-> FALSE,
                  requests |-> {"proofServer"}]
            ELSE [kind |-> "return",
                  value |-> ProbeResult(FetchOk(proofServer), FetchOk(indexerReq)),
                  requests |-> {"proofServer", "indexer"}]
    IN  IF config.skipNetworkCheck
        THEN [kind |-> "return", value |-> FALSE, requests |-> {}]
        ELSE IF tried.kind # "return"
        THEN [kind |-> "return", value |-> FALSE, requests |-> tried.requests]
        ELSE tried

\* What the indexer's GraphQL endpoint does with one query: the status is a
\* transport failure, a timeout, a non-2xx response, a body that is not JSON,
\* a JSON body without the requested data, or a body with data; verified and
\* height are the fields of that data.
QueryStatuses == {"transport", "timeout", "non2xx", "badjson", "nodata", "data"}
QueryResponses ==
    [status : QueryStatuses, verified : {JsTrue, JsFalse, JsUndefined},
     height : {None} \cup {Some(h) : h \in 0..MaxBlockHeight}]

\* queryContractState: the result is null or the state's data, which is
\* represented by its `verified` field.
queryContractState(indexerUrl, response) ==
    IF buildIndexerUrls(indexerUrl) # "return"
    THEN [kind |-> "throw:TypeError", value |-> ContractNull]
    ELSE [kind |-> "return",
          value |-> IF response.status = "data" THEN response.verified
                    ELSE ContractNull]

\* queryTransaction: null, or the block height when the response carries one.
queryTransaction(indexerUrl, response) ==
    IF buildIndexerUrls(indexerUrl) # "return"
    THEN [kind |-> "throw:TypeError", value |-> TxNull]
    ELSE [kind |-> "return",
          value |-> IF response.status = "data" /\ response.height # None
                    THEN TxAt(response.height[1]) ELSE TxNull]

\* CredentialProof.generatePlaceholderProof
generatePlaceholderProof ==
    [NoProofData EXCEPT !.type = "credential_proof", !.version = "1.0",
                        !.placeholder = TRUE]

\* A variant that accepts a credential expiring in the current second.
CredentialGenerateInclusive(input, nowMs) ==
    LET valid == /\ input.expiryTimestamp >= nowMs \div 1000
                 /\ input.issuerSignature # ""
    IN  MkProof(generatePlaceholderProof,
                [NoSignals EXCEPT !.valid = JsBool(valid),
                                  !.credentialType = Some(input.credentialType),
                                  !.issuerPublicKey = Some(input.issuerPublicKey)],
                "credential_proof_vk_placeholder", "credential_proof")

\* CredentialProof.generate; nowMs is Date.now().
CredentialGenerate(input, nowMs) ==
    LET currentTimestamp == nowMs \div 1000
        notExpired == input.expiryTimestamp > currentTimestamp
        validSignature == input.issuerSignature # ""
        valid == notExpired /\ validSignature
    IN  MkProof(generatePlaceholderProof,
                [NoSignals EXCEPT !.valid = JsBool(valid),
                                  !.credentialType = Some(input.credentialType),
                                  !.issuerPublicKey = Some(input.issuerPublicKey)],
                "credential_proof_vk_placeholder", "credential_proof")

MaxSecond == 2

ProbeConfigs ==
    [skipNetworkCheck : BOOLEAN,
     proofServerUrl : {None, Some("not a url")},
     indexerUrl : {None, Some("http://indexer:8088"), Some("not a url")},
     timeoutValid : BOOLEAN]

\* A request to a malformed proof-server URL is rejected by fetch.
ProbeInputs ==
    {in \in [fn : {"isNetworkAvailable"}, config : ProbeConfigs,
             proofServer : FetchOutcomes, indexerReq : FetchOutcomes] :
        UrlWellFormed(in.config.proofServerUrl) \/ in.proofServer = "transport"}

QueryInputs ==
    [fn : {"queryContractState", "queryTransaction"},
     indexerUrl : {Some(DefaultIndexerUrl), Some("not a url")},
     response : QueryResponses]

CredentialInputs ==
    [fn : {"CredentialProof.generate"},
     expiryTimestamp : 0..(MaxSecond + 1),
     issuerSignature : {"", "sig123", "sig456"},
     credentialHash : {"hash1", "hash2"},
     credentialType : {"", "driver_license"},
     issuerPublicKey : {"pk123"},
     nowMs : {1000 * sec + ms : sec \in 0..MaxSecond, ms \in {0, 1, 999}}]

\* Birth dates on both sides of each threshold at the comparison dates.
SecretBirths ==
    {Born, MkDate(2000, 11, 16), MkDate(1990, 0, 1), MkDate(2010, 5, 5)}

\* The branch of AgeVerification.generate taken for parsed inputs: live is
\* clientState.connected && clientState.providers at line 382.
AgeBranchInputs ==
    [fn : {"AgeVerification.generate"}, live : BOOLEAN,
     birthDate : SecretBirths, minAge : {DefaultMinAge, 24},
     currentDate : {DayBefore, Birthday},
     requesterDid : {None, Some("did:key:a")}]

AgeBranch(in) ==
    IF in.live
    THEN generateWithMidnight(LiveState, in.birthDate, in.minAge,
                              in.currentDate, in.requesterDid)
    ELSE generatePlaceholder(in.birthDate, in.minAge, in.currentDate,
                             in.requesterDid)

(***************************************************************************)
(* Date objects as instants.  A Date is a point in time, written here as   *)
(* a UTC calendar day and an hour relative to that day's UTC midnight; the  *)
(* getters getFullYear, getMonth and getDate return the calendar day of    *)
(* the instant in the zone of the process, whose UTC offset is in hours.   *)
(***************************************************************************)
UtcOffsets == {-12, -5, 0, 1, 14}

\* new Date("YYYY-MM-DD"): midnight UTC of that day, in every zone.
DateAtUtcMidnight(y, m, d, offset) == [day |-> MkDate(y, m, d), hour |-> 0]

\* new Date(y, m, d): midnight of that day in the zone of the process.
DateAtLocalMidnight(y, m, d, offset) ==
    [day |-> MkDate(y, m, d), hour |-> 0 - offset]

\* getFullYear(), getMonth(), getDate() of an instant, for offsets and hours
\* that move it by at most one day.
LocalFields(t, offset) ==
    LET shift == (t.hour + offset) \div 24
    IN  IF shift < 0 THEN PreviousDay(t.day)
        ELSE IF shift > 0 THEN NextDay(t.day)
        ELSE t.day

\* generate, lines 346-359 and 495-518, for a birth date given as a
\* YYYY-MM-DD string (1-based month in `parts`) and a native currentDate
\* built from local components, in a process at the given offset.
DateOnlyBirthInputs ==
    [fn : {"generate.dateOnly"},
     parts : {[y |-> 2000, m |-> 5, d |-> 15], [y |-> 2000, m |-> 3, d |-> 1],
              [y |-> 2000, m |-> 1, d |-> 1], [y |-> 1999, m |-> 12, d |-> 31]},
     current : {MkDate(2024, 4, 15), MkDate(2024, 4, 14)},
     minAge : {24},
     offset : UtcOffsets]

GenerateDateOnly(in) ==
    LET birthDate ==
            LocalFields(DateAtLocalMidnight(in.parts.y, in.parts.m - 1,
                                            in.parts.d, in.offset),
                        in.offset)
        currentDate ==
            LocalFields(DateAtLocalMidnight(in.current.y, in.current.m,
                                            in.current.d, in.offset),
                        in.offset)
    IN  [birthDate |-> birthDate,
         proof |-> generatePlaceholder(birthDate, in.minAge, currentDate,
                                       None).proof]

\* generate, lines 346-369 and, offline, 495-540, for a birth date given as
\* a string of the shape YYYY-MM-DD with any two digits for month and day.
BirthPartsInputs ==
    [fn : {"generate.birthParts"},
     parts : [valid : {TRUE}, y : {2000, 2023, 2024}, m : 0..13,
              d : {0, 1, 28, 29, 30, 31, 32}],
     current : {MkDate(2024, 4, 15)},
     minAge : {DefaultMinAge}]

GenerateFromParts(in) ==
    LET parsed == ParseBirthDate(BirthString("ymd", in.parts))
    IN  [birthDate |-> parsed.date,
         proof |-> IF BirthRejected(parsed) THEN ErrorProof
                   ELSE generatePlaceholder(parsed.date, in.minAge, in.current,
                                            None).proof]

\* Proofs handed to CredentialProof.verify: every typing of the three
\* signals, with and without each of the on-chain reference fields.
CredentialVerifyInputs ==
    [fn : {"CredentialProof.verify"},
     proof : {Anchor(p, t, a, h) :
                p \in CredentialProofs,
                t \in {None, Some("tx1")},
                a \in {None, Some("0xc1")},
                h \in {None, Some(0)}}]

InitPure ==
    /\ clientState = InitialClientState
    /\ initialized = [e \in Engines |-> FALSE]
    /\ useMidnight = [e \in Engines |-> FALSE]
    /\ calls = [c \in Callers |-> IdleCall]
    /\ indexer = [contract |-> ContractNull, tx |-> TxNull]
    /\ ageIn = NoAgeInput
    /\ ageOut = NoAgeOutput
    /\ objects = InitialObjects
    /\ snapshots = [c \in Callers |-> NoSnapshot]
    /\ written = {}
    /\ pureIn \in ProbeInputs \cup QueryInputs \cup CredentialInputs
                  \cup CredentialVerifyInputs \cup AgeBranchInputs
                  \cup DateOnlyBirthInputs \cup BirthPartsInputs
    /\ pureOut = NoPureOutput

Applied(result) ==
    /\ ~pureOut.done
    /\ pureOut' = [done |-> TRUE, kind |-> result.kind, result |-> result]
    /\ UNCHANGED <<clientState, initialized, useMidnight, calls, indexer, ageIn,
                   ageOut, objects, snapshots, written, pureIn>>

ApplyProbe ==
    /\ pureIn.fn = "isNetworkAvailable"
    /\ Applied(isNetworkAvailable(pureIn.config, pureIn.proofServer,
                                  pureIn.indexerReq))

ApplyQueryContractState ==
    /\ pureIn.fn = "queryContractState"
    /\ Applied(queryContractState(pureIn.indexerUrl, pureIn.response))

ApplyQueryTransaction ==
    /\ pureIn.fn = "queryTransaction"
    /\ Applied(queryTransaction(pureIn.indexerUrl, pureIn.response))

ApplyCredentialGenerate ==
    /\ pureIn.fn = "CredentialProof.generate"
    /\ Applied([kind |-> "return",
                value |-> CredentialGenerate(pureIn, pureIn.nowMs)])

ApplyAgeBranch ==
    /\ pureIn.fn = "AgeVerification.generate"
    /\ Applied([kind |-> IF AgeBranch(pureIn).kind = "proof" THEN "return"
                         ELSE AgeBranch(pureIn).kind,
                value |-> AgeBranch(pureIn).proof])

ApplyGenerateDateOnly ==
    /\ pureIn.fn = "generate.dateOnly"
    /\ Applied([kind |-> "return", value |-> GenerateDateOnly(pureIn)])

\* The result of a verify call as a result record.
VerifyResult(o) ==
    [kind |-> IF o.ret \in {"true", "false"} THEN "return" ELSE o.ret,
     value |-> o.ret]

ApplyCredentialVerify ==
    /\ pureIn.fn = "CredentialProof.verify"
    /\ Applied(VerifyResult(CredentialVerify(pureIn.proof)))

\* await verify(await generate(input)): the proof just generated is handed
\* to CredentialProof.verify.
VerifyGenerated ==
    /\ pureOut.done
    /\ pureIn.fn = "CredentialProof.generate"
    /\ DOMAIN pureOut = {"done", "kind", "result"}
    /\ pureOut' = [done |-> TRUE, kind |-> pureOut.kind, result |-> pureOut.result,
                   verify |-> VerifyResult(CredentialVerify(pureOut.result.value))]
    /\ UNCHANGED <<clientState, initialized, useMidnight, calls, indexer, ageIn,
                   ageOut, objects, snapshots, written, pureIn>>

ApplyGenerateFromParts ==
    /\ pureIn.fn = "generate.birthParts"
    /\ Applied([kind |-> "return", value |-> GenerateFromParts(pureIn)])

NextPure ==
    \/ ApplyProbe
    \/ ApplyQueryContractState
    \/ ApplyQueryTransaction
    \/ ApplyCredentialGenerate
    \/ ApplyCredentialVerify
    \/ VerifyGenerated
    \/ ApplyAgeBranch
    \/ ApplyGenerateDateOnly
    \/ ApplyGenerateFromParts

SpecPure == InitPure /\ [][NextPure]_vars

(***************************************************************************)
(* The client module used directly: callers invoke initializeClient with   *)
(* config objects of their own, one of them reads the state with           *)
(* getClientState, and callers assign to fields of the objects they hold.  *)
(***************************************************************************)
ClientConfigs ==
    [skipNetworkCheck : BOOLEAN, network : {None, Some("testnet")},
     indexerUrl : {None, Some("not a url")}]

\* The values callers assign to an indexerUrl field.
AssignedUrls == {Some("http://other:8088"), Some("not a url")}

Readers == {"c1"}

InitClient ==
    /\ clientState = InitialClientState
    /\ initialized = [e \in Engines |-> FALSE]
    /\ useMidnight = [e \in Engines |-> FALSE]
    /\ calls = [c \in Callers |-> IdleCall]
    /\ indexer = [contract |-> ContractNull, tx |-> TxNull]
    /\ ageIn = NoAgeInput
    /\ ageOut = NoAgeOutput
    /\ \E config \in ClientConfigs :
          objects = [InitialObjects EXCEPT !["k1"] = config]
    /\ snapshots = [c \in Callers |-> NoSnapshot]
    /\ written = {}
    /\ pureIn = NoPureInput
    /\ pureOut = NoPureOutput

\* await initializeClient(config) called directly with config object k.
InitializeClient(c, k) ==
    /\ Idle(c)
    /\ calls' = [calls EXCEPT ![c] =
                   StartInitializeClient([IdleCall EXCEPT !.op = "initializeClient",
                                                          !.config = k])]
    /\ UNCHANGED <<clientState, initialized, useMidnight, indexer, ageIn, ageOut,
                   objects, snapshots, written, pureVars>>

\* const snapshot = getClientState()
GetClientState(c) ==
    /\ snapshots' = [snapshots EXCEPT ![c] =
                       [held |-> TRUE, dirty |-> FALSE,
                        state |-> getClientState(clientState)]]
    /\ UNCHANGED <<clientState, initialized, useMidnight, calls, indexer, ageIn,
                   ageOut, objects, written, pureVars>>

\* snapshot.connected = !snapshot.connected: an assignment to a top-level
\* field of the copy.
AssignSnapshotField(c) ==
    /\ snapshots[c].held
    /\ ~snapshots[c].dirty
    /\ snapshots' = [snapshots EXCEPT ![c].dirty = TRUE,
                                      ![c].state.connected = ~@]
    /\ UNCHANGED <<clientState, initialized, useMidnight, calls, indexer, ageIn,
                   ageOut, objects, written, pureVars>>

\* snapshot.config.indexerUrl = url: an assignment through the snapshot's
\* config reference.
AssignSnapshotConfig(c, url) ==
    /\ snapshots[c].held
    /\ snapshots[c].state.config # None
    /\ objects[snapshots[c].state.config[1]].indexerUrl # url
    /\ objects' = [objects EXCEPT ![snapshots[c].state.config[1]].indexerUrl = url]
    /\ UNCHANGED <<clientState, initialized, useMidnight, calls, indexer, ageIn,
                   ageOut, snapshots, written, pureVars>>

\* config.indexerUrl = url: the owner assigns to the object it passed, or
\* will pass, to initializeClient.
AssignConfig(k, url) ==
    /\ objects[k].indexerUrl # url
    /\ objects' = [objects EXCEPT ![k].indexerUrl = url]
    /\ UNCHANGED <<clientState, initialized, useMidnight, calls, indexer, ageIn,
                   ageOut, snapshots, written, pureVars>>

StepClient(c) ==
    \/ Idle(c) /\ \E k \in CallerConfigs : InitializeClient(c, k)
    \/ \E ps \in BOOLEAN, ix \in BOOLEAN : ProbeDone(c, ps, ix)
    \/ InitWrite(c)
    \/ Return(c)

NextClient ==
    \/ \E c \in Callers : StepClient(c)
    \/ \E r \in Readers : GetClientState(r)
    \/ \E r \in Readers : AssignSnapshotField(r)
    \/ \E r \in Readers, url \in AssignedUrls : AssignSnapshotConfig(r, url)
    \/ \E k \in CallerConfigs, url \in AssignedUrls : AssignConfig(k, url)

SpecClient == InitClient /\ [][NextClient]_vars

(***************************************************************************)
(* The availability probe step by step (witnesses.ts, lines 187-213): the  *)
(* call starts its requests, each request settles on its own, and the      *)
(* awaited Promise.all resolves.  pureIn is the merged config and the way   *)
(* each request ends; pureOut records the requests started and settled and *)
(* the order of the events.                                                *)
(***************************************************************************)
ProbeRequests == {"proofServer", "indexer"}

ProbeIdle ==
    [done |-> FALSE, phase |-> "idle", started |-> {}, settled |-> {},
     events |-> <<>>, value |-> FALSE]

InitProbe ==
    /\ clientState = InitialClientState
    /\ initialized = [e \in Engines |-> FALSE]
    /\ useMidnight = [e \in Engines |-> FALSE]
    /\ calls = [c \in Callers |-> IdleCall]
    /\ indexer = [contract |-> ContractNull, tx |-> TxNull]
    /\ ageIn = NoAgeInput
    /\ ageOut = NoAgeOutput
    /\ objects = InitialObjects
    /\ snapshots = [c \in Callers |-> NoSnapshot]
    /\ written = {}
    /\ pureIn \in ProbeInputs
    /\ pureOut = ProbeIdle

\* A variant that resolves as soon as one request has settled.
AnySettled(started, settled) == settled # {}

\* Promise.all over promises that cannot reject: it resolves when every
\* one of them has.
AllSettled(started, settled) == settled = started

\* The synchronous part of isNetworkAvailable, lines 188-208: the array
\* literal starts the proof-server request and then the indexer request;
\* AbortSignal.timeout and buildIndexerUrls may throw on the way, which the
\* catch at line 210 turns into the result false.
ProbeCall ==
    LET config == pureIn.config
    IN  /\ pureOut.phase = "idle"
        /\ pureOut' =
             IF config.skipNetworkCheck
             THEN [pureOut EXCEPT !.done = TRUE, !.phase = "returned",
                                  !.events = <<"return">>]
             ELSE IF ~config.timeoutValid
             THEN [pureOut EXCEPT !.done = TRUE, !.phase = "returned",
                                  !.events = <<"return">>]
             ELSE IF buildIndexerUrls(config.indexerUrl) # "return"
             THEN [pureOut EXCEPT !.done = TRUE, !.phase = "returned",
                                  !.started = {"proofServer"},
                                  !.events = <<"start:proofServer", "return">>]
             ELSE [pureOut EXCEPT !.phase = "awaiting",
                                  !.started = ProbeRequests,
                                  !.events = <<"start:proofServer",
                                               "start:indexer">>]
        /\ UNCHANGED <<clientState, initialized, useMidnight, calls, indexer,
                       ageIn, ageOut, objects, snapshots, written, pureIn>>

\* One request settles: its promise, with .then(r => r.ok).catch(() => false)
\* attached, resolves to a boolean.
RequestSettles(r) ==
    /\ r \in pureOut.started \ pureOut.settled
    /\ pureOut' = [pureOut EXCEPT !.settled = @ \cup {r},
                                  !.events = Append(@, "settle:" \o r)]
    /\ UNCHANGED <<clientState, initialized, useMidnight, calls, indexer,
                   ageIn, ageOut, objects, snapshots, written, pureIn>>

\* The await at line 197 resumes and line 209 returns.
ProbeResolves ==
    /\ pureOut.phase = "awaiting"
    /\ AllSettled(pureOut.started, pureOut.settled)
    /\ pureOut' = [pureOut EXCEPT
                     !.done = TRUE, !.phase = "returned",
                     !.value = ProbeResult(FetchOk(pureIn.proofServer),
                                           FetchOk(pureIn.indexerReq)),
                     !.events = Append(@, "return")]
    /\ UNCHANGED <<clientState, initialized, useMidnight, calls, indexer,
                   ageIn, ageOut, objects, snapshots, written, pureIn>>

NextProbe ==
    \/ ProbeCall
    \/ \E r \in ProbeRequests : RequestSettles(r)
    \/ ProbeResolves

SpecProbe == InitProbe /\ [][NextProbe]_vars

(***************************************************************************)
(* The HTTP server (server.ts): one POST /proofs/{type} request at a time. *)
(* pureIn is the request, pureOut the progress of handleRequest and the    *)
(* responses sent; the age handler's generate runs as caller c1 on engine  *)
(* e1, which lives as long as the server does.                             *)
(***************************************************************************)
\* loadProofHandlers, lines 27-43: each class exported by the barrel under
\* its lower-cased name and under its short name.
RegisteredHandlers ==
    [age |-> "AgeVerification", ageverification |-> "AgeVerification",
     credential |-> "CredentialProof", credentialproof |-> "CredentialProof"]

\* Property names every plain object inherits from Object.prototype.
ObjectPrototypeNames == {"constructor", "__proto__"}

\* proofHandlers[proofType], line 94, on the plain object of line 19: an
\* own property, else an inherited one, else undefined.
HandlerLookup(proofType) ==
    IF proofType \in DOMAIN RegisteredHandlers THEN RegisteredHandlers[proofType]
    ELSE IF proofType \in ObjectPrototypeNames THEN "inherited"
    ELSE "undefined"

ServerTypes ==
    DOMAIN RegisteredHandlers \cup ObjectPrototypeNames \cup {"passport", ""}

\* Request bodies: text that is not JSON, the JSON value null, and JSON
\* objects with or without the fields each engine reads.
ServerBodies ==
    [json : {"invalid", "null"}, birthDate : {BirthAbsent},
     credential : {"absent"}]
    \cup [json : {"object"},
          birthDate : {BirthAbsent, BirthString("ymd", MkDate(2000, 12, 15)),
                       BirthString("other", InvalidDate)},
          credential : {"absent", "expired", "current"}]

ServerRequests == [fn : {"POST /proofs"}, type : ServerTypes, body : ServerBodies]

ServerIdle == [phase |-> "idle", responses |-> <<>>, invoked |-> "none"]

Response(status, envelope) == [status |-> status, envelope |-> envelope]

\* sendJson followed by return: the response is written and handleRequest
\* ends.
SendJson(out, status, envelope) ==
    [out EXCEPT !.phase = "responded",
                !.responses = Append(@, Response(status, envelope))]

\* input as AgeVerification.generate reads it; currentDate and requesterDid
\* are not sent.
AgeInputOf(body) == [NoGenInput EXCEPT !.birthDate = body.birthDate]

CredentialInputOf(body) ==
    [expiryTimestamp |-> IF body.credential = "current" THEN 2 ELSE 1,
     issuerSignature |-> "sig123", credentialHash |-> "hash1",
     credentialType |-> "driver_license", issuerPublicKey |-> "pk123"]

InitServer ==
    /\ clientState = InitialClientState
    /\ initialized = [e \in Engines |-> FALSE]
    /\ useMidnight = [e \in Engines |-> FALSE]
    /\ calls = [c \in Callers |-> IdleCall]
    /\ indexer = [contract |-> ContractNull, tx |-> TxNull]
    /\ ageIn = NoAgeInput
    /\ ageOut = NoAgeOutput
    /\ objects = InitialObjects
    /\ snapshots = [c \in Callers |-> NoSnapshot]
    /\ written = {}
    /\ pureIn \in ServerRequests
    /\ pureOut = ServerIdle

\* handleRequest, lines 92-102: the handler is looked up; without one the
\* 400 response is sent, else the body is awaited.
ServerReceive ==
    /\ pureOut.phase = "idle"
    /\ pureOut' = IF HandlerLookup(pureIn.type) = "undefined"
                  THEN SendJson(pureOut, 400, "unknownType")
                  ELSE [pureOut EXCEPT !.phase = "reading"]
    /\ UNCHANGED <<clientState, initialized, useMidnight, calls, indexer, ageIn,
                   ageOut, objects, snapshots, written, pureIn>>

\* Lines 105-117 up to the first suspension inside generate: JSON.parse
\* throws on text that is not JSON; handler.generate is not a function on
\* an inherited property; each generate raises a TypeError when it reads a
\* property of null or the length of a missing issuerSignature; otherwise
\* CredentialProof.generate resolves at once and AgeVerification.generate
\* is entered.
ServerBodyRead ==
    LET handler == HandlerLookup(pureIn.type)
        body == pureIn.body
    IN  /\ pureOut.phase = "reading"
        /\ IF body.json = "invalid" \/ handler = "inherited"
           THEN /\ pureOut' = SendJson(pureOut, 500, "failed")
                /\ calls' = calls
           ELSE IF handler = "CredentialProof"
           THEN /\ pureOut' =
                     IF body.json = "null" \/ body.credential = "absent"
                     THEN SendJson([pureOut EXCEPT !.invoked = handler],
                                   500, "failed")
                     ELSE SendJson([pureOut EXCEPT !.invoked = handler],
                                   200, "success")
                /\ calls' = calls
           ELSE IF body.json = "null"
           THEN /\ pureOut' = SendJson([pureOut EXCEPT !.invoked = handler],
                                       500, "failed")
                /\ calls' = calls
           ELSE /\ pureOut' = [pureOut EXCEPT !.phase = "generating",
                                              !.invoked = handler]
                /\ calls' = [calls EXCEPT !["c1"] =
                               GenerateEntry("e1", AgeInputOf(body), Now)]
        /\ UNCHANGED <<clientState, initialized, useMidnight, indexer, ageIn,
                       ageOut, objects, snapshots, written, pureIn>>

\* Lines 110-117: generate has settled; a proof is sent with 200, a
\* rejection is caught and answered with 500.
ServerRespond ==
    /\ pureOut.phase = "generating"
    /\ Done("c1")
    /\ pureOut' = IF calls["c1"].ret = "proof"
                  THEN SendJson(pureOut, 200, "success")
                  ELSE SendJson(pureOut, 500, "failed")
    /\ UNCHANGED <<clientState, initialized, useMidnight, calls, indexer, ageIn,
                   ageOut, objects, snapshots, written, pureIn>>

\* The next request arrives at the same server.
ServerNextRequest(request) ==
    /\ pureOut.phase = "responded"
    /\ pureIn' = request
    /\ pureOut' = ServerIdle
    /\ calls' = [calls EXCEPT !["c1"] = IdleCall]
    /\ UNCHANGED <<clientState, initialized, useMidnight, indexer, ageIn,
                   ageOut, objects, snapshots, written>>

NextServer ==
    \/ ServerReceive
    \/ ServerBodyRead
    \/ \E proofServerOk \in BOOLEAN, indexerOk \in BOOLEAN :
           ProbeDone("c1", proofServerOk, indexerOk)
    \/ Initialized("c1")
    \/ ServerRespond
    \/ \E request \in ServerRequests : ServerNextRequest(request)

SpecServer == InitServer /\ [][NextServer]_vars

(***************************************************************************)
(* Overlapping initialisations: each of two callers calls initializeClient *)
(* with a config object of its own, the second before the first has        *)
(* returned; when both have returned the callers take their results and    *)
(* may call again.                                                         *)
(***************************************************************************)
OwnConfig == [c1 |-> "k1", c2 |-> "k2"]

OtherCaller(c) == IF c = "c1" THEN "c2" ELSE "c1"

InitOverlap ==
    /\ clientState = InitialClientState
    /\ initialized = [e \in Engines |-> FALSE]
    /\ useMidnight = [e \in Engines |-> FALSE]
    /\ calls = [c \in Callers |-> IdleCall]
    /\ indexer = [contract |-> ContractNull, tx |-> TxNull]
    /\ ageIn = NoAgeInput
    /\ ageOut = NoAgeOutput
    /\ \E skip1 \in BOOLEAN, skip2 \in BOOLEAN :
          objects = [InitialObjects EXCEPT
                       !["k1"] = [skipNetworkCheck |-> skip1,
                                  network |-> Some("testnet"),
                                  indexerUrl |-> None],
                       !["k2"] = [skipNetworkCheck |-> skip2,
                                  network |-> None,
                                  indexerUrl |-> None]]
    /\ snapshots = [c \in Callers |-> NoSnapshot]
    /\ written = {}
    /\ pureIn = NoPureInput
    /\ pureOut = NoPureOutput

\* A caller calls initializeClient while the other caller's call, if any,
\* has not returned.
StartOverlapping(c) ==
    /\ ~Done(OtherCaller(c))
    /\ InitializeClient(c, OwnConfig[c])

\* A caller whose call has returned takes the result once the other call
\* has returned too.
ReturnOverlapped(c) ==
    /\ calls[OtherCaller(c)].pc \in {"idle", "done"}
    /\ Return(c)

StepOverlap(c) ==
    \/ StartOverlapping(c)
    \/ \E ps \in BOOLEAN, ix \in BOOLEAN : ProbeDone(c, ps, ix)
    \/ InitWrite(c)
    \/ ReturnOverlapped(c)

NextOverlap == \E c \in Callers : StepOverlap(c)

SpecOverlap == InitOverlap /\ [][NextOverlap]_vars

(***************************************************************************)
(* Live verification while the client state is replaced: two engines       *)
(* constructed with indexer URLs of their own and a caller of              *)
(* initializeClient whose config names none.                               *)
(***************************************************************************)
IndexerA == "http://indexer-a:8088"
IndexerB == "http://indexer-b:8088"

InitUrl ==
    /\ clientState = InitialClientState
    /\ initialized = [e \in Engines |-> FALSE]
    /\ useMidnight = [e \in Engines |-> FALSE]
    /\ calls = [c \in Callers |-> IdleCall]
    /\ indexer = [contract |-> JsTrue, tx |-> TxAt(0)]
    /\ ageIn = NoAgeInput
    /\ ageOut = NoAgeOutput
    /\ objects = [InitialObjects EXCEPT
                    !["e1"].indexerUrl = Some(IndexerA),
                    !["e2"] = [skipNetworkCheck |-> FALSE, network |-> None,
                               indexerUrl |-> Some(IndexerB)]]
    /\ snapshots = [c \in Callers |-> NoSnapshot]
    /\ written = {}
    /\ pureIn = NoPureInput
    /\ pureOut = NoPureOutput

UrlProofs ==
    {Anchor(generateWithMidnight(LiveState, Born, DefaultMinAge, Birthday,
                                 None).proof,
            Some("tx1"), Some("0xc1"), None)}

StepUrl(c) ==
    \/ Idle(c) /\ \E e \in Engines : Initialize(c, e)
    \/ Idle(c) /\ InitializeClient(c, "k1")
    \/ \E ps \in BOOLEAN, ix \in BOOLEAN : ProbeDone(c, ps, ix)
    \/ Idle(c) /\ \E e \in Engines, p \in UrlProofs : Verify(c, e, p, None)
    \/ ContractStateDone(c)
    \/ TransactionDone(c)
    \/ Return(c)

NextUrl == \E c \in Callers : StepUrl(c)

SpecUrl == InitUrl /\ [][NextUrl]_vars

(***************************************************************************)
(* Repeated generation: two callers issue generate calls, on the age       *)
(* engines and on the credential engine, at different readings of the      *)
(* clock, and keep the results side by side.                               *)
(***************************************************************************)
EarlierClock == MkDate(2024, 5, 1)          \* a reading before the birthday
Clocks == {EarlierClock, Now}

TwiceGenInputs ==
    [birthDate : {BirthAbsent, BirthObject(Born)},
     minAge : {Some(24)},
     currentDate : {[kind |-> "absent", date |-> InvalidDate],
                    [kind |-> "Date", date |-> DayBefore],
                    [kind |-> "Date", date |-> Birthday]},
     requesterDid : {None}]

TwiceCredentialInputs ==
    [expiryTimestamp : {1, 2},
     issuerSignature : {"sig123"},
     credentialHash : {"hash1"},
     credentialType : {"driver_license"},
     issuerPublicKey : {"pk123"},
     nowMs : {1000, 1999, 2000}]

\* await credentialProof.generate(in), with Date.now() = in.nowMs; the call
\* has no await before its return.
CredentialProofGenerate(c, in) ==
    /\ Idle(c)
    /\ calls' = [calls EXCEPT ![c] =
                   [IdleCall EXCEPT !.op = "credential.generate", !.gen = in,
                                    !.pc = "done", !.ret = "proof",
                                    !.out = CredentialGenerate(in, in.nowMs)]]
    /\ UNCHANGED <<clientState, initialized, useMidnight, indexer, ageIn, ageOut,
                   objects, snapshots, written, pureVars>>

StepTwice(c) ==
    \/ Idle(c) /\ \E e \in Engines, in \in TwiceGenInputs, now \in Clocks :
                     Generate(c, e, in, now)
    \/ \E in \in TwiceCredentialInputs : CredentialProofGenerate(c, in)
    \/ \E ps \in BOOLEAN, ix \in BOOLEAN : ProbeDone(c, ps, ix)
    \/ InitWrite(c)
    \/ InitReturn(c)
    \/ Initialized(c)
    \/ Return(c)

NextTwice == \E c \in Callers : StepTwice(c)

InitTwice == Init /\ indexer = [contract |-> ContractNull, tx |-> TxNull]

SpecTwice == InitTwice /\ [][NextTwice]_vars

(***************************************************************************)
(* Properties of verification (specification Spec).                        *)
(***************************************************************************)
VerifyDone(c) == Done(c) /\ calls[c].op = "verify"
AgeProof(p) == p.circuitId = "age_verification"
SignalsWellTyped(p) ==
    /\ p.publicSignals.verified \in {JsTrue, JsFalse}
    /\ p.publicSignals.minAge.type = "number"
Supplied(did) == did # None
NonEmpty(did) == did # None /\ did # Some("")

\* C1: verify returns false for every age proof marked "midnight" that lacks
\* txId or contractAddress, whatever the mode of the verifying engine.
PendingLiveProofRejected ==
    \A c \in Callers :
        LET p == calls[c].proofIn
        IN  (/\ VerifyDone(c)
             /\ AgeProof(p)
             /\ p.publicSignals.network = Some("midnight")
             /\ (~NonEmpty(p.txId) \/ ~NonEmpty(p.contractAddress)))
            => calls[c].ret = "false"

\* The case of a "mocked" age proof without on-chain reference, well typed
\* and with no expectedDid mismatch.
MockedCase(c) ==
    LET p == calls[c].proofIn
    IN  /\ VerifyDone(c)
        /\ AgeProof(p)
        /\ SignalsWellTyped(p)
        /\ p.publicSignals.network = Some("mocked")
        /\ (~NonEmpty(p.txId) \/ ~NonEmpty(p.contractAddress))
        /\ (~NonEmpty(calls[c].expectedDid)
              \/ calls[c].expectedDid = p.publicSignals.requesterDid)

\* C2: a well-typed "mocked" age proof without on-chain reference, with no
\* expectedDid mismatch, is accepted by an engine whose memoised mode is
\* offline and rejected by an engine whose memoised mode is live.
MockedProofByMode ==
    \A c \in Callers :
        MockedCase(c) =>
            calls[c].ret = IF useMidnight[calls[c].engine] THEN "false" ELSE "true"

MockedProofRejectedLive ==
    \E c \in Callers :
        /\ MockedCase(c)
        /\ useMidnight[calls[c].engine]
        /\ calls[c].ret = "false"

\* The four on-chain facts C3 names, for contract state answer st and
\* transaction answer tx.
OnChainFacts(p, st, tx) ==
    /\ st # ContractNull
    /\ st = p.publicSignals.verified
    /\ tx.found
    /\ (p.blockHeight = None \/ tx.blockHeight = p.blockHeight[1])

\* A verification by a live-mode engine of a well-typed age proof carrying
\* both txId and contractAddress.
LiveCase(c) ==
    LET p == calls[c].proofIn
    IN  /\ VerifyDone(c)
        /\ useMidnight[calls[c].engine]
        /\ AgeProof(p)
        /\ SignalsWellTyped(p)
        /\ NonEmpty(p.txId) /\ NonEmpty(p.contractAddress)

ExpectedDidMatches(c) ==
    \/ ~NonEmpty(calls[c].expectedDid)
    \/ calls[c].expectedDid = calls[c].proofIn.publicSignals.requesterDid

\* C3, amended: in the live case, with no expectedDid mismatch, verify
\* returns true iff the contract-state query it made found a state whose
\* verified field equals the proof's, the transaction query it then made
\* found the transaction, and the proof has no blockHeight or its blockHeight
\* equals the transaction's; otherwise it returns false.  With an
\* expectedDid mismatch it returns false and makes no query.
LiveVerifyDecision ==
    \A c \in Callers :
        LiveCase(c) =>
            IF ExpectedDidMatches(c)
            THEN /\ calls[c].contractAnswer # "unasked"
                 /\ calls[c].ret \in {"true", "false"}
                 /\ calls[c].ret = "true" <=>
                        /\ calls[c].txAsked
                        /\ OnChainFacts(calls[c].proofIn, calls[c].contractAnswer,
                                        calls[c].txAnswer)
            ELSE /\ calls[c].ret = "false"
                 /\ calls[c].contractAnswer = "unasked"
                 /\ ~calls[c].txAsked

LiveVerifyAcceptsAtHeight ==
    \E c \in Callers :
        /\ LiveCase(c)
        /\ calls[c].proofIn.blockHeight # None
        /\ calls[c].expectedDid = Some("did:key:a")
        /\ calls[c].ret = "true"

\* C3 as stated: in the live case verify returns true iff the four on-chain
\* facts hold, where a query the call did not make is answered by what the
\* indexer holds now.
LiveVerifyDecisionAsStated ==
    \A c \in Callers :
        LiveCase(c) =>
            (calls[c].ret = "true" <=>
                OnChainFacts(calls[c].proofIn,
                             IF calls[c].contractAnswer = "unasked"
                             THEN indexer.contract ELSE calls[c].contractAnswer,
                             IF calls[c].txAsked
                             THEN calls[c].txAnswer ELSE indexer.tx))

(***************************************************************************)
(* Properties of generation and of the dispatcher (specification Spec).    *)
(***************************************************************************)
GenerateDone(c) == Done(c) /\ calls[c].op = "generate"

\* The birth date input is a valid Date object or a YYYY-MM-DD string.
BirthInputValid(bd) ==
    \/ bd.kind = "Date" /\ bd.date.valid
    \/ bd.kind = "string" /\ bd.shape = "ymd"

NoOnChainFields(p) ==
    p.txId = None /\ p.contractAddress = None /\ p.blockHeight = None

\* C6: generate with a missing birth date, or one that does not parse to a
\* valid date, does not throw: it returns a proof with an empty proof string,
\* verified false, an error signal, circuitId "age_verification" and no
\* on-chain reference fields.
InvalidBirthDateProof ==
    \A c \in Callers :
        (GenerateDone(c) /\ ~BirthInputValid(calls[c].gen.birthDate)) =>
            /\ calls[c].ret = "proof"
            /\ calls[c].out.proof = NoProofData
            /\ calls[c].out.publicSignals.verified = JsFalse
            /\ calls[c].out.publicSignals.error # None
            /\ calls[c].out.circuitId = "age_verification"
            /\ NoOnChainFields(calls[c].out)

InvalidDateObjectRejected ==
    \E c \in Callers :
        /\ GenerateDone(c)
        /\ calls[c].gen.birthDate = BirthObject(InvalidDate)
        /\ calls[c].out.publicSignals.error = Some("Invalid or missing birth date")

\* C7: identity binding on an offline engine.  A proof generated with
\* requesterDid d carries requesterDid = d; verify with a supplied
\* expectedDid e returns true iff e = d for a proof carrying d, and false for
\* a proof carrying no requesterDid.
DidBinding ==
    \A c \in Callers :
        LET p == calls[c].proofIn
            d == p.publicSignals.requesterDid
            e == calls[c].expectedDid
        IN  /\ (/\ GenerateDone(c)
                /\ BirthInputValid(calls[c].gen.birthDate)
                /\ calls[c].ret = "proof"
                /\ Supplied(calls[c].gen.requesterDid))
               => calls[c].out.publicSignals.requesterDid = calls[c].gen.requesterDid
            /\ (/\ VerifyDone(c)
                /\ ~useMidnight[calls[c].engine]
                /\ AgeProof(p) /\ SignalsWellTyped(p)
                /\ Supplied(e))
               => IF Supplied(d) THEN (calls[c].ret = "true" <=> e = d)
                  ELSE calls[c].ret = "false"

\* C8: AgeVerification.verify and CredentialProof.verify raise the
\* invalid-circuit error for a proof whose circuitId is not their own, before
\* any public signal is read and before any query; they return no boolean.
ForeignCircuitRaises ==
    \A c \in Callers :
        /\ (/\ calls[c].op = "verify"
            /\ calls[c].proofIn.circuitId # "age_verification")
           => /\ Done(c)
              /\ calls[c].ret = "throw:Invalid circuit ID for age verification"
              /\ calls[c].log = <<"age.verify">>
        /\ (/\ calls[c].op = "credential.verify"
            /\ calls[c].proofIn.circuitId # "credential_proof")
           => /\ Done(c)
              /\ calls[c].ret = "throw:Invalid circuit ID for credential proof"
              /\ calls[c].log = <<"credential.verify">>

AgeProofToCredentialEngineRaises ==
    \E c \in Callers :
        /\ Done(c)
        /\ calls[c].op = "credential.verify"
        /\ calls[c].proofIn.circuitId = "age_verification"
        /\ calls[c].ret = "throw:Invalid circuit ID for credential proof"

Invoked(c, entry) == \E i \in 1..Len(calls[c].log) : calls[c].log[i] = entry

\* C9: ProofGenerator.verify hands an "age_verification" proof to
\* AgeVerification only and a "credential_proof" proof to CredentialProof
\* only; for any other circuitId it raises the unknown-circuit error, returns
\* no boolean and invokes neither engine.
DispatchByCircuit ==
    \A c \in Callers :
        calls[c].op = "generator.verify" =>
            IF calls[c].proofIn.circuitId = "age_verification"
            THEN Invoked(c, "age.verify") /\ ~Invoked(c, "credential.verify")
            ELSE IF calls[c].proofIn.circuitId = "credential_proof"
            THEN Invoked(c, "credential.verify") /\ ~Invoked(c, "age.verify")
            ELSE /\ Done(c)
                 /\ calls[c].ret = "throw:Unknown circuit"
                 /\ ~Invoked(c, "age.verify")
                 /\ ~Invoked(c, "credential.verify")

UnknownCircuitRaises ==
    \E c \in Callers :
        /\ Done(c)
        /\ calls[c].op = "generator.verify"
        /\ calls[c].proofIn.circuitId = "range_proof"
        /\ calls[c].ret = "throw:Unknown circuit"

(***************************************************************************)
(* Fallback to the placeholder branch (specification SpecConc).            *)
(***************************************************************************)
PlaceholderResult(call) ==
    /\ call.ret = "proof"
    /\ call.out.publicSignals.network = Some("mocked")
    /\ call.out.verificationKey = "age_verification_vk_placeholder"
    /\ NoOnChainFields(call.out)

\* The initialisation this generate call awaited ran the probe, and the
\* probe failed or was skipped.
OwnProbeFailed(c) ==
    /\ calls[c].probed \in {"skipped", "issued"}
    /\ ~calls[c].available

Precedes(m1, d1, m2, d2) == m1 < m2 \/ (m1 = m2 /\ d1 < d2)

CalendarAge(birth, current) ==
    (current.y - birth.y)
    - (IF Precedes(current.m, current.d, birth.m, birth.d) THEN 1 ELSE 0)

\* C4: generate sets verified = (age >= minAge), where age is the difference
\* of the years, minus one exactly when the comparison month and day precede
\* the birth month and day; the birthday itself counts as passed.
VerifiedIsCalendarAge ==
    ageOut.done =>
        ageOut.placeholder.publicSignals.verified
            = JsBool(CalendarAge(ageIn.birthDate, ageIn.currentDate) >= ageIn.minAge)

OnTheBirthday ==
    /\ ageOut.done
    /\ ageIn = [birthDate |-> Born, minAge |-> 24, currentDate |-> Birthday]
    /\ ageOut.placeholder.publicSignals.verified = JsTrue

ProbeApplied == pureOut.done /\ pureIn.fn = "isNetworkAvailable"

\* C11: isNetworkAvailable never raises, and returns true iff both the
\* proof-server request and the indexer request were made and each ended
\* with a 2xx response; a transport failure, a non-2xx status, a timeout or
\* a malformed URL on either gives false.
ProbeTrueIffBoth2xx ==
    ProbeApplied =>
        /\ pureOut.kind = "return"
        /\ pureOut.result.value <=>
              /\ pureOut.result.requests = {"proofServer", "indexer"}
              /\ pureIn.proofServer = "2xx"
              /\ pureIn.indexerReq = "2xx"
        /\ (\/ pureIn.proofServer # "2xx"
            \/ pureIn.indexerReq # "2xx"
            \/ pureIn.config.proofServerUrl = Some("not a url")
            \/ pureIn.config.indexerUrl = Some("not a url"))
           => ~pureOut.result.value

ProbeFalseOnMalformedIndexerUrl ==
    /\ ProbeApplied
    /\ ~pureIn.config.skipNetworkCheck
    /\ pureIn.config.timeoutValid
    /\ pureIn.config.indexerUrl = Some("not a url")
    /\ pureIn.proofServer = "2xx"
    /\ pureOut.kind = "return"
    /\ ~pureOut.result.value

\* C18: AgeVerification.verify never raises for a proof whose circuitId is
\* "age_verification": malformed public signals, a DID mismatch, a missing
\* on-chain reference and every failed indexer lookup end in false.
AgeVerifyNeverRaises ==
    \A c \in Callers :
        (/\ Done(c)
         /\ calls[c].op = "verify"
         /\ calls[c].proofIn.circuitId = "age_verification")
        => calls[c].ret \in {"true", "false"}

QueryApplied ==
    pureOut.done /\ pureIn.fn \in {"queryContractState", "queryTransaction"}

\* C19: queryContractState and queryTransaction never raise, whatever the
\* base URL and the way the request ends: they return the not-found result
\* unless the response carries the requested data, and an unparseable base
\* URL gives not-found as well.
QueriesNeverRaise ==
    QueryApplied =>
        /\ pureOut.kind = "return"
        /\ (\/ pureIn.response.status # "data"
            \/ ~UrlWellFormed(pureIn.indexerUrl))
           => IF pureIn.fn = "queryContractState"
              THEN pureOut.result.value = ContractNull
              ELSE pureOut.result.value = TxNull

\* now in whole seconds: the second s with 1000 s <= nowMs < 1000 (s + 1).
WholeSecond(nowMs) ==
    CHOOSE sec \in 0..nowMs : 1000 * sec <= nowMs /\ nowMs < 1000 * (sec + 1)

CredentialGenerated ==
    pureOut.done /\ pureIn.fn = "CredentialProof.generate"

\* C20: CredentialProof.generate sets publicSignals.valid to true exactly
\* when expiryTimestamp is later than the current time in whole seconds and
\* issuerSignature is not empty; an expiry equal to the current second is
\* not valid, and an empty signature is never valid.
CredentialValidity ==
    CredentialGenerated =>
        /\ pureOut.kind = "return"
        /\ pureOut.result.value.publicSignals.valid =
              JsBool(/\ pureIn.expiryTimestamp > WholeSecond(pureIn.nowMs)
                     /\ pureIn.issuerSignature # "")
        /\ pureIn.expiryTimestamp = WholeSecond(pureIn.nowMs)
              => pureOut.result.value.publicSignals.valid = JsFalse
        /\ pureIn.issuerSignature = ""
              => pureOut.result.value.publicSignals.valid = JsFalse

ExpiryAtCurrentSecondInvalid ==
    /\ CredentialGenerated
    /\ pureIn.issuerSignature # ""
    /\ pureIn.nowMs = 1000 * pureIn.expiryTimestamp + 999
    /\ pureIn.expiryTimestamp > 0
    /\ pureOut.result.value.publicSignals.valid = JsFalse

CredentialVerified ==
    pureOut.done /\ pureIn.fn = "CredentialProof.verify"

NoOnChainReference(p) ==
    p.txId = None /\ p.contractAddress = None /\ p.blockHeight = None

GeneratedThenVerified ==
    /\ CredentialGenerated
    /\ "verify" \in DOMAIN pureOut

\* C21: for a credential proof without on-chain reference fields,
\* CredentialProof.verify returns true exactly when valid is the boolean
\* true and credentialType and issuerPublicKey are non-empty strings, and
\* false otherwise; so verify(generate(x)) is x's computed validity whenever
\* x's credentialType and issuerPublicKey are non-empty.
CredentialVerifyDecision ==
    /\ (CredentialVerified /\ NoOnChainReference(pureIn.proof)) =>
          /\ pureOut.kind = "return"
          /\ pureOut.result.value =
                IF /\ pureIn.proof.publicSignals.valid = JsTrue
                   /\ NonEmpty(pureIn.proof.publicSignals.credentialType)
                   /\ NonEmpty(pureIn.proof.publicSignals.issuerPublicKey)
                THEN "true" ELSE "false"
    /\ (/\ GeneratedThenVerified
        /\ pureIn.credentialType # ""
        /\ pureIn.issuerPublicKey # "") =>
          /\ pureOut.verify.kind = "return"
          /\ (pureOut.verify.value = "true") <=>
                /\ pureIn.expiryTimestamp > WholeSecond(pureIn.nowMs)
                /\ pureIn.issuerSignature # ""

ExpiredCredentialRoundTrip ==
    /\ GeneratedThenVerified
    /\ pureIn.credentialType # ""
    /\ pureIn.issuerSignature # ""
    /\ pureIn.expiryTimestamp <= WholeSecond(pureIn.nowMs)
    /\ pureOut.verify.value = "false"

\* C22: CredentialProof.verify never returns true for a proof that carries
\* an on-chain reference field (txId, contractAddress or blockHeight).
OnChainCredentialNeverAccepted ==
    (CredentialVerified /\ ~NoOnChainReference(pureIn.proof))
        => pureOut.result.value # "true"

AgeGenerated ==
    pureOut.done /\ pureIn.fn = "AgeVerification.generate"

OldEnough(birthDate, in) ==
    CalendarAge(birthDate, in.currentDate) >= in.minAge

LiveGenerateDone(c) ==
    /\ GenerateDone(c)
    /\ BirthInputValid(calls[c].gen.birthDate)
    /\ calls[c].currentDateV.valid
    /\ clientState.connected
    /\ clientState.providers

RequestedCurrentDate(in) ==
    IF in.currentDate.kind = "absent" THEN Now ELSE in.currentDate.date

\* C25: generate compares against the caller-supplied currentDate whether
\* it is a native date or an ISO date string, and against the current time
\* only when currentDate is absent.
SuppliedCurrentDateUsed ==
    \A c \in Callers :
        (/\ GenerateDone(c)
         /\ BirthInputValid(calls[c].gen.birthDate)
         /\ RequestedCurrentDate(calls[c].gen).valid
         /\ calls[c].ret = "proof")
        => calls[c].out.publicSignals.verified =
              JsBool(CalendarAge(calls[c].birthDate,
                                 RequestedCurrentDate(calls[c].gen))
                         >= calls[c].minAgeV)

DateOnlyGenerated ==
    pureOut.done /\ pureIn.fn = "generate.dateOnly"

SameAgeInputTwice ==
    /\ \A c \in Callers : GenerateDone(c)
    /\ calls["c1"].engine = calls["c2"].engine
    /\ ~useMidnight[calls["c1"].engine]
    /\ calls["c1"].gen = calls["c2"].gen
    /\ calls["c1"].gen.currentDate.kind = "Date"

\* Both callers hold the result of a credential proof generation from the
\* same input, the clock reading the same second.
SameCredentialInputTwice ==
    /\ \A c \in Callers : Done(c) /\ calls[c].op = "credential.generate"
    /\ [calls["c1"].gen EXCEPT !.nowMs = 0] = [calls["c2"].gen EXCEPT !.nowMs = 0]
    /\ calls["c1"].gen.nowMs \div 1000 = calls["c2"].gen.nowMs \div 1000

\* C27: two generate calls with identical inputs on an engine in offline
\* mode give equal publicSignals.verified (age proofs, with an explicit
\* comparison date) and equal publicSignals.valid (credential proofs, within
\* the same second of the clock).
RepeatedGenerateAgrees ==
    /\ SameAgeInputTwice =>
          /\ calls["c1"].ret = "proof"
          /\ calls["c2"].ret = "proof"
          /\ calls["c1"].out.publicSignals.verified
                = calls["c2"].out.publicSignals.verified
    /\ SameCredentialInputTwice =>
          calls["c1"].out.publicSignals.valid = calls["c2"].out.publicSignals.valid

SameInputAtTwoClocks ==
    /\ SameAgeInputTwice
    /\ calls["c1"].clock = EarlierClock
    /\ calls["c2"].clock = Now
    /\ calls["c1"].gen.currentDate.date = Birthday
    /\ calls["c1"].gen.minAge = Some(24)
    /\ calls["c1"].out.publicSignals.verified = JsTrue
    /\ calls["c2"].out.publicSignals.verified = JsTrue
    /\ calls["c1"].out.publicSignals.network = Some("mocked")

(***************************************************************************)
(* The order of the steps of live verification (specification Spec).       *)
(***************************************************************************)
Occurrences(log, entry) == Cardinality({i \in 1..Len(log) : log[i] = entry})

\* entry1 occurs in the log before the first occurrence of entry2.
LoggedBefore(log, entry1, entry2) ==
    \A j \in 1..Len(log) :
        log[j] = entry2 => \E i \in 1..(j - 1) : log[i] = entry1

AgeVerifyCall(c) ==
    /\ calls[c].op \in {"verify", "generator.verify"}
    /\ calls[c].proofIn.circuitId = "age_verification"

\* C30: live verification short-circuits in order and never retries.  No
\* indexer query is made for a proof without txId or contractAddress; the
\* structural and DID checks have passed before any query; the
\* instance-state query comes before the transaction query; the transaction
\* query is made only when the state was found and its `verified` equals
\* the proof's; and a verify call makes at most one query of each kind.
LiveVerifyShortCircuits ==
    \A c \in Callers :
        AgeVerifyCall(c) =>
            LET log == calls[c].log
                p == calls[c].proofIn
            IN  /\ Occurrences(log, "queryContractState") <= 1
                /\ Occurrences(log, "queryTransaction") <= 1
                /\ LacksOnChainRef(p) =>
                      /\ ~Invoked(c, "queryContractState")
                      /\ ~Invoked(c, "queryTransaction")
                /\ Invoked(c, "queryContractState") =>
                      /\ LoggedBefore(log, "signals", "queryContractState")
                      /\ ~p.publicSignals.missing
                      /\ StructureValid(p.publicSignals)
                      /\ ~DidMismatch(p.publicSignals, calls[c].expectedDid)
                      /\ useMidnight[calls[c].engine]
                /\ LoggedBefore(log, "queryContractState", "queryTransaction")
                /\ calls[c].txAsked = Invoked(c, "queryTransaction")
                /\ Invoked(c, "queryTransaction") =>
                      /\ calls[c].contractAnswer \notin {"unasked", ContractNull}
                      /\ calls[c].contractAnswer = p.publicSignals.verified
                /\ calls[c].pc = "ver_state" => ~Invoked(c, "queryTransaction")

StateMismatchStopsBeforeTransaction ==
    \E c \in Callers :
        /\ AgeVerifyCall(c)
        /\ Done(c)
        /\ calls[c].ret = "false"
        /\ Occurrences(calls[c].log, "queryContractState") = 1
        /\ calls[c].contractAnswer \notin {"unasked", ContractNull}
        /\ calls[c].contractAnswer # calls[c].proofIn.publicSignals.verified
        /\ ~Invoked(c, "queryTransaction")

(***************************************************************************)
(* The invalid-birth-date path of generate (specification Spec).           *)
(***************************************************************************)
RejectedGenerate(call) ==
    /\ call.op = "generate"
    /\ BirthRejected(ParseBirthDate(call.gen.birthDate))

\* C31: a generate call whose birth date is missing or does not parse
\* returns the error proof in the step that enters it: it calls neither
\* initialize nor initializeClient, issues no probe request, and leaves the
\* engines' initialized and useMidnight flags and the process-wide client
\* state as they were.
RejectedBirthReturnsBeforeInitialisation ==
    [][\A c \in Callers :
          (Idle(c) /\ RejectedGenerate(calls'[c])) =>
              /\ calls'[c].pc = "done"
              /\ calls'[c].ret = "proof"
              /\ calls'[c].out = ErrorProof
              /\ calls'[c].log = <<>>
              /\ calls'[c].probed = "no"
              /\ UNCHANGED <<clientState, initialized, useMidnight, written>>]_vars

RejectedBirthOnFreshEngine ==
    \E c \in Callers :
        /\ RejectedGenerate(calls[c])
        /\ Done(c)
        /\ calls[c].out = ErrorProof
        /\ ~initialized[calls[c].engine]
        /\ clientState = InitialClientState
        /\ written = {}

(***************************************************************************)
(* Date-only strings that name no calendar day (specification SpecPure).   *)
(***************************************************************************)
BirthPartsGenerated == pureIn.fn = "generate.birthParts" /\ pureOut.done

\* The month is 01-12 and the day exists in that month.
NamesCalendarDay(parts) ==
    /\ parts.m \in 1..12
    /\ parts.d \in 1..DaysInMonth(parts.y, parts.m - 1)

\* C32: for a YYYY-MM-DD birth-date string whose month is outside 01-12 or
\* whose day is outside the month's range, generate returns the error proof
\* instead of computing an age from a rolled-over date.
OutOfRangeDateOnlyRejected ==
    (BirthPartsGenerated /\ ~NamesCalendarDay(pureIn.parts)) =>
        pureOut.result.value.proof = ErrorProof

(***************************************************************************)
(* Responses of POST /proofs/{type} (specification SpecServer).            *)
(***************************************************************************)
Responded == pureIn.fn = "POST /proofs" /\ pureOut.phase = "responded"

GenerateResolved ==
    \/ pureOut.invoked = "CredentialProof" /\ pureIn.body.json = "object"
                                           /\ pureIn.body.credential # "absent"
    \/ pureOut.invoked = "AgeVerification" /\ calls["c1"].ret = "proof"

\* C33: a POST /proofs/{type} request gets at most one response, and when
\* it is sent it is 400 with the unknown-type envelope, without any engine
\* invoked, when {type} is not a registered handler name; otherwise 500
\* with the failure envelope when the body is not JSON or generate raised,
\* and 200 with the success envelope when generate resolved.
OneResponsePerProofRequest ==
    /\ pureIn.fn = "POST /proofs" => Len(pureOut.responses) <= 1
    /\ Responded =>
          /\ Len(pureOut.responses) = 1
          /\ pureOut.responses[1] =
                IF pureIn.type \notin DOMAIN RegisteredHandlers
                THEN Response(400, "unknownType")
                ELSE IF pureIn.body.json = "invalid" \/ ~GenerateResolved
                THEN Response(500, "failed")
                ELSE Response(200, "success")
          /\ pureIn.type \notin DOMAIN RegisteredHandlers
                => pureOut.invoked = "none"

(***************************************************************************)
(* Engines' memoised mode and the shared client state (specification       *)
(* SpecConc).                                                              *)
(***************************************************************************)
\* C34: in every reachable state each initialised engine's useMidnight
\* equals clientState.connected, so the branch generate takes (decided from
\* the client state) agrees with the trust rule the same engine's verify
\* applies (decided from useMidnight).
MemoisedModeMatchesClientState ==
    \A e \in Engines : initialized[e] => useMidnight[e] = clientState.connected

(***************************************************************************)
(* Verification and initialisation (specification Spec).                   *)
(***************************************************************************)
VerifyStep(c) == calls'[c].op = "verify" /\ calls'[c] # calls[c]

\* On an engine that was never initialised, a verify call has made no
\* query and, once past the circuit, structure and DID checks, has returned
\* true.
OfflineRuleApplied(c) ==
    /\ ~Invoked(c, "queryContractState")
    /\ ~Invoked(c, "queryTransaction")
    /\ Done(c)
    /\ (/\ calls[c].proofIn.circuitId = "age_verification"
        /\ ~calls[c].proofIn.publicSignals.missing
        /\ StructureValid(calls[c].proofIn.publicSignals)
        /\ ~DidMismatch(calls[c].proofIn.publicSignals, calls[c].expectedDid))
       => calls[c].ret = "true"

\* C35: AgeVerification.verify never triggers initialisation: its steps
\* leave initialized and useMidnight unchanged and issue no probe.  An
\* engine that was never initialised has useMidnight false, and verify on
\* it issues no indexer query and applies the offline trust rule, whatever
\* the client state says about the network.
VerifyNeverInitialises ==
    /\ [](\A e \in Engines : ~initialized[e] => ~useMidnight[e])
    /\ [](\A c \in Callers :
            (calls[c].op = "verify" /\ ~initialized[calls[c].engine])
            => OfflineRuleApplied(c))
    /\ [][\A c \in Callers :
            VerifyStep(c) =>
                /\ UNCHANGED <<initialized, useMidnight, clientState, written>>
                /\ calls'[c].probed = "no"
                /\ ~\E i \in 1..Len(calls'[c].log) :
                       calls'[c].log[i] \in {"initialize", "initializeClient",
                                             "fetch:proofServer", "fetch:indexer"}]_vars

PendingProofTrustedByFreshEngine ==
    \E c \in Callers :
        /\ calls[c].op = "verify"
        /\ Done(c)
        /\ ~initialized[calls[c].engine]
        /\ clientState.connected
        /\ calls[c].proofIn.verificationKey = "age_verification_vk_midnight"
        /\ calls[c].proofIn.txId = None
        /\ calls[c].ret = "true"
        /\ calls[c].log = <<"age.verify", "signals">>

(***************************************************************************)
(* Properties of initialisation (specifications SpecConc, SpecConcFair).   *)
(***************************************************************************)
\* A generate call that entered initializeClient with a config whose
\* skipNetworkCheck is set.
SkipCase(c) ==
    /\ calls[c].op = "generate"
    /\ calls[c].probed # "no"
    /\ objects[calls[c].config].skipNetworkCheck

\* C12: with skipNetworkCheck set the probe answers false and starts neither
\* the proof-server nor the indexer request, and the generate call that
\* awaited it then returns a "mocked" proof.
SkippedProbeThenMocked ==
    /\ [](\A c \in Callers :
            SkipCase(c) =>
                /\ calls[c].probed = "skipped"
                /\ ~calls[c].available
                /\ ~Invoked(c, "fetch:proofServer")
                /\ ~Invoked(c, "fetch:indexer")
                /\ Done(c) => PlaceholderResult(calls[c]))
    /\ \A c \in Callers :
          SkipCase(c) ~> (SkipCase(c) /\ Done(c) /\ PlaceholderResult(calls[c]))

SkippedProbeGeneratedMocked ==
    \E c \in Callers :
        /\ SkipCase(c)
        /\ Done(c)
        /\ calls[c].log = <<"initialize", "initializeClient", "getClientState">>
        /\ PlaceholderResult(calls[c])

\* C17: on one AgeVerification instance initializeClient is invoked at most
\* once, also when several generate calls start before the first
\* initialisation has finished: no two calls on the same instance have both
\* invoked it.
InitializeClientOncePerInstance ==
    \A c1 \in Callers, c2 \in Callers :
        (/\ c1 # c2
         /\ calls[c1].engine = calls[c2].engine
         /\ Invoked(c1, "initializeClient"))
        => ~Invoked(c2, "initializeClient")

(***************************************************************************)
(* Properties of the client state (specification SpecClient).              *)
(***************************************************************************)
\* The network label a config object asks for.
ConfiguredNetwork(ref) ==
    IF objects[ref].network = None THEN "standalone" ELSE objects[ref].network[1]

\* The two shapes of the client state.
LiveShape(st) ==
    /\ st.connected
    /\ st.providers
    /\ st.config # None
    /\ st.network = ConfiguredNetwork(st.config[1])
    /\ st.network # "mocked"

MockedShape(st) ==
    /\ ~st.connected
    /\ ~st.providers
    /\ st.config = None
    /\ st.network = "mocked"

\* Caller c's direct initializeClient call returns in this step.
InitializeClientReturns(c) ==
    /\ calls[c].pc # "done"
    /\ calls'[c].pc = "done"
    /\ calls'[c].op = "initializeClient"
    /\ calls'[c].ret \in {"true", "false"}

\* C13: the client state always has one of two shapes, live (connected,
\* the configured network label or "standalone", providers and config
\* present) or mocked (not connected, "mocked", neither providers nor
\* config); when an initializeClient call returns, the state is live iff its
\* probe succeeded, it holds that call's config, and the call returns the
\* state's connected flag.
ClientStateShapes ==
    /\ [](LiveShape(clientState) \/ MockedShape(clientState))
    /\ [][\A c \in Callers :
            InitializeClientReturns(c) =>
                /\ (calls'[c].ret = "true") = clientState'.connected
                /\ calls'[c].available = clientState'.connected
                /\ IF calls'[c].available
                   THEN /\ LiveShape(clientState)'
                        /\ clientState'.config = Some(calls'[c].config)
                   ELSE MockedShape(clientState)']_vars

LiveWithConfiguredLabel ==
    \E c \in Callers :
        /\ Done(c)
        /\ calls[c].op = "initializeClient"
        /\ calls[c].ret = "true"
        /\ clientState = [connected |-> TRUE, network |-> "testnet",
                          providers |-> TRUE, config |-> Some(calls[c].config)]

\* The states assigned by completed initialisations, and the initial one.
WholeStates == {w.state : w \in written} \cup {InitialClientState}

\* C14: a snapshot returned by getClientState is never half-updated: it is
\* a whole state written by one completed initialisation or the initial
\* default, with connected, providers, config and a non-"mocked" network all
\* present together or all absent together, and a step that re-initialises
\* the client leaves every snapshot taken before as it was.
SnapshotsAreWhole ==
    /\ [](\A r \in Readers :
            (snapshots[r].held /\ ~snapshots[r].dirty) =>
                /\ snapshots[r].state \in WholeStates
                /\ snapshots[r].state.connected = snapshots[r].state.providers
                /\ snapshots[r].state.connected = (snapshots[r].state.config # None)
                /\ snapshots[r].state.connected = (snapshots[r].state.network # "mocked"))
    /\ [][clientState' # clientState => snapshots' = snapshots]_vars

LiveSnapshotOutlivesFallback ==
    \E r \in Readers :
        /\ snapshots[r].held
        /\ ~snapshots[r].dirty
        /\ snapshots[r].state.connected
        /\ snapshots[r].state.providers
        /\ clientState = InitialClientState
        /\ \E w \in written : ~w.available

\* What a caller sees through a state object: its fields, and behind the
\* config reference the contents of the config object.
Contents(st) ==
    [connected |-> st.connected, network |-> st.network,
     providers |-> st.providers,
     config |-> IF st.config = None THEN None ELSE Some(objects[st.config[1]])]

\* C15: what getClientState returns changes only when initializeClient
\* writes the client state: no assignment to a snapshot, to its nested
\* config, or to the config object passed to initializeClient changes it.
SnapshotsNeverAlias ==
    [][clientState' = clientState =>
         Contents(getClientState(clientState))' = Contents(getClientState(clientState))]_vars

\* C16: re-initialisation is idempotent and superseding: two completed
\* calls with the same config and the same probe answer leave equal client
\* states, and after a call with a failed probe returns, no providers and
\* no config of an earlier live initialisation remain.
ReinitialisationSupersedes ==
    /\ [](\A w1 \in written, w2 \in written :
            (/\ w1.config = w2.config
             /\ w1.network = w2.network
             /\ w1.available = w2.available) => w1.state = w2.state)
    /\ [][\A c \in Callers :
            (InitializeClientReturns(c) /\ ~calls'[c].available) =>
                /\ ~clientState'.providers
                /\ clientState'.config = None
                /\ clientState' = InitialClientState]_vars

FallbackAfterLive ==
    /\ clientState = InitialClientState
    /\ \E w1 \in written, w2 \in written :
          /\ w1.available
          /\ ~w2.available
          /\ w1.config = w2.config
    /\ \E c \in Callers :
          /\ Done(c)
          /\ calls[c].op = "initializeClient"
          /\ calls[c].ret = "false"

(***************************************************************************)
(* The live branch of generate under re-initialisation (specification      *)
(* SpecConc).                                                              *)
(***************************************************************************)
\* Caller c's generate call leaves the live branch in this step, with a
\* proof or with an error raised inside generateWithMidnight.
LiveBranchTaken(c) ==
    /\ calls[c].pc # "done"
    /\ calls'[c].pc = "done"
    /\ calls'[c].op = "generate"
    /\ \/ /\ calls'[c].ret = "proof"
          /\ calls'[c].out.verificationKey = "age_verification_vk_midnight"
       \/ /\ calls'[c].ret \notin {"proof", "none"}
          /\ Invoked(c, "getClientState")'

\* C37: no generate call raises "Midnight client not initialized": under
\* every interleaving with initialisations by other engines, the live
\* branch is taken only when the client state read at that moment is
\* connected and has both providers and config.
LiveBranchFindsProviders ==
    /\ [](\A c \in Callers :
            calls[c].ret # "throw:Midnight client not initialized")
    /\ [][\A c \in Callers :
            LiveBranchTaken(c) =>
                /\ clientState'.connected
                /\ clientState'.providers
                /\ clientState'.config # None]_vars

PlaceholderFromLiveMemoisedEngine ==
    \E c \in Callers :
        /\ GenerateDone(c)
        /\ initialized[calls[c].engine]
        /\ useMidnight[calls[c].engine]
        /\ calls[c].probed = "no"
        /\ ~clientState.connected
        /\ ~clientState.providers
        /\ PlaceholderResult(calls[c])

(***************************************************************************)
(* The indexer URL of a live verification (specification SpecUrl).         *)
(***************************************************************************)
\* clientState.config.indexerUrl, or the default when the state has no
\* config or the config no indexerUrl.
StateIndexerUrl ==
    IF clientState.config = None THEN "http://localhost:8088"
    ELSE IF objects[clientState.config[1]].indexerUrl = None
    THEN "http://localhost:8088"
    ELSE objects[clientState.config[1]].indexerUrl[1]

\* C38: a live verification queries the indexer at the URL found in the
\* process-wide client state at the moment of the verify call, or at the
\* default URL when that state has no config or no indexerUrl, whatever
\* the verifying engine's own config says; the URL stays the same for the
\* whole call, and the transaction query uses the URL of the state query.
VerifyUsesClientStateUrl ==
    /\ [][\A c \in Callers :
            (/\ Idle(c)
             /\ calls'[c].op = "verify"
             /\ Invoked(c, "queryContractState")')
            => calls'[c].indexerUrl = StateIndexerUrl]_vars
    /\ [][\A c \in Callers :
            calls[c].pc \in {"ver_state", "ver_tx"}
            => calls'[c].indexerUrl = calls[c].indexerUrl]_vars
    /\ [](\A c \in Callers :
            calls[c].txAsked => calls[c].txUrl = calls[c].indexerUrl)

BothQueriesAtUrlOfOtherEngine ==
    \E c \in Callers :
        /\ calls[c].op = "verify"
        /\ calls[c].engine = "e1"
        /\ calls[c].txAsked
        /\ calls[c].indexerUrl = IndexerB
        /\ calls[c].txUrl = IndexerB
        /\ objects["e1"].indexerUrl = Some(IndexerA)
        /\ StateIndexerUrl = "http://localhost:8088"

(***************************************************************************)
(* Overlapping initializeClient calls (specification SpecOverlap).         *)
(***************************************************************************)
\* The state a call with this config and this probe answer assigns, field
\* by field.
StateOfCall(call) ==
    IF call.available
    THEN [connected |-> TRUE, network |-> ConfiguredNetwork(call.config),
          providers |-> TRUE, config |-> Some(call.config)]
    ELSE [connected |-> FALSE, network |-> "mocked", providers |-> FALSE,
          config |-> None]

\* C36: when two initializeClient calls overlap, each call replaces the
\* client state, at the moment its probe has answered, by the whole state
\* for its own config and answer, whichever call started first; nothing
\* else changes the state, so the final state is that of the call whose
\* probe answered last, and no state mixes fields of the two calls.
LastCompletedProbeWins ==
    /\ [][\A c \in Callers :
            InitializeClientReturns(c) => clientState' = StateOfCall(calls'[c])]_vars
    /\ [][clientState' # clientState =>
            \E c \in Callers : InitializeClientReturns(c)]_vars
    /\ []((\A c \in Callers : Done(c)) =>
            \E c \in Callers : clientState = StateOfCall(calls[c]))

MockedProbeAnsweredAfterLive ==
    /\ \A c \in Callers : Done(c) /\ calls[c].op = "initializeClient"
    /\ calls["c1"].ret = "true"
    /\ calls["c2"].ret = "false"
    /\ calls["c2"].probed = "issued"
    /\ clientState = InitialClientState
    /\ \E w \in written : w.config = "k1" /\ w.available

(***************************************************************************)
(* Effects of the engines on the client state (specification SpecConc).    *)
(***************************************************************************)
EngineCall(call) == call.op \in {"generate", "verify"}

\* C28 as stated: no step of an AgeVerification.generate or verify call
\* changes the process-wide client state.
EngineCallsLeaveClientState ==
    [][\A c \in Callers :
         (EngineCall(calls[c]) /\ calls'[c] # calls[c])
         => clientState' = clientState]_vars

\* C28, amended: verify never changes the client state, and generate
\* changes it only through the initialisation it runs after finding its
\* engine not yet initialised, which replaces the state by the live state
\* for the engine's config when the probe succeeded and by the mocked
\* state when it failed; a generate call that finds its engine initialised
\* only reads the state.
ClientStateWrittenOnlyByInitialisation ==
    [][\A c \in Callers :
         /\ (/\ EngineCall(calls'[c])
             /\ calls[c].probed = "no"
             /\ calls'[c].probed # "no")
            => /\ calls'[c].op = "generate"
               /\ ~initialized[calls'[c].engine]
         /\ (/\ EngineCall(calls[c])
             /\ calls'[c] # calls[c]
             /\ clientState' # clientState)
            => /\ calls[c].op = "generate"
               /\ calls[c].probed # "no"
               /\ IF calls'[c].available
                  THEN /\ LiveShape(clientState)'
                       /\ clientState'.config = Some(calls[c].engine)
                  ELSE clientState' = InitialClientState]_vars

GenerateReplacedLiveState ==
    \E c \in Callers :
        /\ GenerateDone(c)
        /\ calls[c].engine = "e2"
        /\ calls[c].probed = "skipped"
        /\ clientState = InitialClientState
        /\ \E w \in written : w.available /\ w.config = "e1"
        /\ \A w \in written : w.config = "e1" => w.available
        /\ PlaceholderResult(calls[c])

(***************************************************************************)
(* Properties of the probe's requests (specification SpecProbe).           *)
(***************************************************************************)
ProbeCalled == pureOut.phase # "idle" /\ ~pureIn.config.skipNetworkCheck

\* Both requests can be built: the timeout is valid and the indexer URL
\* parses.
ProbeRequestsBuildable ==
    /\ pureIn.config.timeoutValid
    /\ UrlWellFormed(pureIn.config.indexerUrl)

\* Both requests were started before anything else happened, and the result
\* was produced only after both had settled.
BothStartedFirst ==
    /\ pureOut.started = ProbeRequests
    /\ Len(pureOut.events) >= 2
    /\ pureOut.events[1] = "start:proofServer"
    /\ pureOut.events[2] = "start:indexer"
    /\ pureOut.done => pureOut.settled = ProbeRequests

\* C29 as stated: whenever skipNetworkCheck is not set, both requests are
\* started before either completes, and the result is produced only after
\* both have settled.
ProbeRequestsConcurrent == ProbeCalled => BothStartedFirst

\* C29, amended: when skipNetworkCheck is not set, the timeout is valid and
\* the indexer URL parses, both requests are started before either
\* completes, the second also when the first fails, the result is produced
\* only after both have settled, and it is true exactly when both ended
\* with a 2xx response.
ProbeRequestsConcurrentWhenBuildable ==
    (ProbeCalled /\ ProbeRequestsBuildable) =>
        /\ BothStartedFirst
        /\ pureOut.done =>
              pureOut.value = (pureIn.proofServer = "2xx" /\ pureIn.indexerReq = "2xx")

IndexerSettledBeforeFailedProofServer ==
    /\ ProbeCalled
    /\ ProbeRequestsBuildable
    /\ pureIn.proofServer = "transport"
    /\ pureIn.indexerReq = "2xx"
    /\ pureOut.done
    /\ ~pureOut.value
    /\ pureOut.events = <<"start:proofServer", "start:indexer", "settle:indexer",
                          "settle:proofServer", "return">>

(***************************************************************************)
(* Termination of the engines' calls (specification SpecLive).             *)
(***************************************************************************)
InFlight(c) == calls[c].op \in {"generate", "verify"} /\ ~Done(c)

\* C39: every AgeVerification.generate call and every verify call
\* eventually completes, with a value or an error, provided every
\* outstanding probe or indexer request eventually settles; what the other
\* caller does, and how the client state changes meanwhile, does not hold
\* it up.
EngineCallsComplete ==
    \A c \in Callers :
        InFlight(c) ~> (Done(c) /\ calls[c].ret # "none")

VerifyCompletedBesidePendingGenerate ==
    /\ calls["c1"].op = "verify"
    /\ Done("c1")
    /\ Invoked("c1", "queryTransaction")
    /\ calls["c1"].ret \in {"true", "false"}
    /\ calls["c2"].op = "generate"
    /\ calls["c2"].pc = "probe"

====
